---------------------------- MODULE Spec2Model ----------------------------
(***************************************************************************)
(* Resource-governing core of the contract-analysis service:               *)
(*   RequestQueue and PerformanceMonitor (model/core/PerformanceMonitor.js)*)
(*   ResourceManager (model/core/ResourceManager.js),                      *)
(* and its ContractAnalyzer (model/analyzers/ContractAnalyzer.js) with the *)
(* ClauseExtractor it drives (model/extractors/ClauseExtractor.js).        *)
(*                                                                         *)
(* JavaScript runs every handler to its next await without interruption,   *)
(* so one action is one synchronous block: a public call up to its first   *)
(* suspension, or the continuation that runs when an awaited promise has   *)
(* settled.  Work units are asynchronous functions: they settle in a later *)
(* block than the one that dispatched them.                                *)
(***************************************************************************)
EXTENDS Integers, Sequences, FiniteSets, TLC

\* ------------------------------------------------------------- bounds
\* number of work units handed to RequestQueue.enqueue in one run
MaxItems == 3

\* largest concurrency ceiling passed to the constructor or to
\* setMaxConcurrent: a ceiling above the number of items is never reached
MaxCeiling == MaxItems

\* number of recordRequestStart calls in one run
MaxRecords == 3

\* number of recordRequestEnd calls explored on one record
MaxEnds == 2

\* number of processRequest calls in one run of the manager
MaxCalls == 2

\* number of sentence pieces of a text handed to analyzeContract
MaxSentences == 2

\* number of analyzeContract calls in one run
MaxAnalyses == 2
\* number of processContract calls in one run
MaxProcessed == 2

Ids == 1..MaxItems
RecIds == 1..MaxRecords
Calls == 1..MaxCalls
\* constructor arguments explored
CeilingChoices == 1..MaxCeiling
\* setMaxConcurrent arguments explored (0 exercises the floor at 1)
CeilingArgs == 0..MaxCeiling
\* maxConcurrentRequests values configured on the manager: odd and even, and
\* such that half of the largest differs from half of the others
ConfiguredCeilings == {1, 2, 3, 4}

VARIABLES
  rq,           \* the RequestQueue object
  promise,      \* promise[i]: state of the promise enqueue returned for item i
  nextId,       \* next item identity (items are numbered in enqueue order)
  dispatchLog,  \* observation: items in the order they entered the processing set
  settleLog,    \* observation: items in the order their promises settled
                \* (both logs observe the queue used directly: SpecQ, SpecQFixed)
  pm,           \* the PerformanceMonitor object
  intervals,    \* runtime: number of live setInterval timers of the monitor
  rec,          \* rec[r]: the request record the r-th recordRequestStart returned
  nextRec,      \* next record identity
  rm,           \* the ResourceManager object (its queue is rq, its monitor pm)
  gauge,        \* gauge[m]: memoryUsage reported by registered collaborator m
  pass,         \* the optimizeResources pass in progress, if any
  call,         \* call[p]: the p-th processRequest call (its record is rec[p])
  recoveryTimers, \* runtime: pending setTimeout callbacks of the recovery check
  ca,           \* the ContractAnalyzer object
  analysis,     \* what the last analyzeContract call returned, or that it threw
  cp,           \* the ContractProcessor object (isLoaded: its modelManager's)
  processed     \* observation: what the last processContract call did

qvars == <<rq, promise, nextId, dispatchLog, settleLog>>
pvars == <<pm, intervals, rec, nextRec>>
rvars == <<rm, gauge, pass, call, recoveryTimers>>
avars == <<ca, analysis, cp, processed>>
vars == <<rq, promise, nextId, dispatchLog, settleLog, pm, intervals, rec, nextRec,
          rm, gauge, pass, call, recoveryTimers, ca, analysis, cp, processed>>

Max(a, b) == IF a >= b THEN a ELSE b

\* ------------------------------------------------------- RequestQueue
\* the fields of a queue item the dispatcher writes (a timestamp is null or
\* set), and invoked (observation): how many times its work unit was called
QueueItem == [startedAt |-> "null", completedAt |-> "null", invoked |-> 0]
\* an identity that names no item the queue holds: not created yet, or
\* dropped with the history
NoItem == [startedAt |-> "none", completedAt |-> "none", invoked |-> 0]

\* new RequestQueue(maxConcurrent); item[i] is the item object of identity i
RequestQueue(maxConcurrent) ==
  [ item          |-> [i \in Ids |-> NoItem],
    queue         |-> <<>>,
    processing    |-> {},
    maxConcurrent |-> maxConcurrent,
    completed     |-> <<>>,
    failed        |-> <<>>,
    metrics       |-> [ totalRequests     |-> 0,
                        completedRequests |-> 0,
                        failedRequests    |-> 0 ] ]

\* variant: the capacity test uses > where the code has >=
processNextOffByOne(q) ==
  IF Cardinality(q.processing) > q.maxConcurrent \/ Len(q.queue) = 0
  THEN q
  ELSE [q EXCEPT !.queue = Tail(@),
                 !.processing = @ \cup {Head(q.queue)},
                 !.item[Head(q.queue)].startedAt = "set",
                 !.item[Head(q.queue)].invoked = @ + 1]

\* variant: pop() where the code has shift()
processNextFromTail(q) ==
  IF Cardinality(q.processing) >= q.maxConcurrent \/ Len(q.queue) = 0
  THEN q
  ELSE [q EXCEPT !.queue = SubSeq(@, 1, Len(@) - 1),
                 !.processing = @ \cup {q.queue[Len(q.queue)]},
                 !.item[q.queue[Len(q.queue)]].startedAt = "set",
                 !.item[q.queue[Len(q.queue)]].invoked = @ + 1]

\* processNext up to its await: one item leaves the head of the wait list
\* when the guard lets it; the call dispatches at most one item.
processNext(q) ==
  IF Cardinality(q.processing) >= q.maxConcurrent \/ Len(q.queue) = 0
  THEN q
  ELSE [q EXCEPT !.queue = Tail(@),
                 !.processing = @ \cup {Head(q.queue)},
                 !.item[Head(q.queue)].startedAt = "set",
                 !.item[Head(q.queue)].invoked = @ + 1]

\* enqueue: push, count, processNext()
enqueue(q, item) ==
  processNext([q EXCEPT !.item[item] = QueueItem,
                        !.queue = Append(@, item),
                        !.metrics.totalRequests = @ + 1])

\* processNext after its await: the item's work unit has settled (ok = it
\* resolved); the item moves to a history list, its promise is settled and
\* processNext() is called once more.
settle(q, item, ok) ==
  processNext(
    IF ok
    THEN [q EXCEPT !.item[item].completedAt = "set",
                   !.processing = @ \ {item},
                   !.completed = Append(@, item),
                   !.metrics.completedRequests = @ + 1]
    ELSE [q EXCEPT !.item[item].completedAt = "set",
                   !.processing = @ \ {item},
                   !.failed = Append(@, item),
                   !.metrics.failedRequests = @ + 1])

\* processNext after its await, when the work unit rejected with null or
\* undefined: the catch moves the item to the failed list and counts it, then
\* reading error.message for the log entry throws, so item.reject(error) and
\* the trailing processNext() are never reached.
settleReasonless(q, item) ==
  [q EXCEPT !.item[item].completedAt = "set",
            !.processing = @ \ {item},
            !.failed = Append(@, item),
            !.metrics.failedRequests = @ + 1]

\* item i is in the completed or in the failed list
InHistory(q, i) ==
  \/ \E k \in 1..Len(q.completed) : q.completed[k] = i
  \/ \E k \in 1..Len(q.failed) : q.failed[k] = i

\* variant: the in-flight items are left out of the recomputed total
clearHistoryWaitingOnly(q) ==
  [q EXCEPT !.item = [i \in Ids |-> IF InHistory(q, i) THEN NoItem ELSE @[i]],
            !.completed = <<>>,
            !.failed = <<>>,
            !.metrics = [ totalRequests     |-> Len(q.queue),
                          completedRequests |-> 0,
                          failedRequests    |-> 0 ]]

\* clearHistory
clearHistory(q) ==
  [q EXCEPT !.item = [i \in Ids |-> IF InHistory(q, i) THEN NoItem ELSE @[i]],
            !.completed = <<>>,
            !.failed = <<>>,
            !.metrics = [ totalRequests     |-> Len(q.queue) + Cardinality(q.processing),
                          completedRequests |-> 0,
                          failedRequests    |-> 0 ]]

\* variant: a lowered ceiling pre-empts the items in flight, which go back
\* to the head of the wait list
setMaxConcurrentPreempting(q, newLimit) ==
  LET nq == [q EXCEPT !.maxConcurrent = Max(1, newLimit)]
      inFlight == SelectSeq([k \in 1..MaxItems |-> k], LAMBDA k : k \in q.processing)
  IN  IF nq.maxConcurrent > q.maxConcurrent THEN processNext(nq)
      ELSE IF Cardinality(q.processing) > nq.maxConcurrent
      THEN [nq EXCEPT !.processing = {}, !.queue = inFlight \o @]
      ELSE nq

\* setMaxConcurrent
setMaxConcurrent(q, newLimit) ==
  LET nq == [q EXCEPT !.maxConcurrent = Max(1, newLimit)]
  IN  IF nq.maxConcurrent > q.maxConcurrent THEN processNext(nq) ELSE nq

\* observation: the items a block moved into the processing set (in wait-list
\* order), each tagged with the operation whose processNext() dispatched it
Dispatched(old, new, by) ==
  LET moved == SelectSeq(old.queue, LAMBDA x : x \in new.processing)
  IN  [k \in 1..Len(moved) |-> [id |-> moved[k], by |-> by]]

DispatchOrder == [k \in 1..Len(dispatchLog) |-> dispatchLog[k].id]

\* ------------------------------------------------- PerformanceMonitor
\* the metrics object of the constructor and of resetMetrics
ZeroRequests == [total |-> 0, completed |-> 0, failed |-> 0, inProgress |-> 0]

\* the numbers the monitor derives by division are kept as fractions in
\* lowest terms (num / den, den > 0)
RECURSIVE GCD(_, _)
GCD(a, b) == IF b = 0 THEN a ELSE GCD(b, a % b)
Ratio(n, d) == LET g == GCD(n, d) IN [num |-> n \div g, den |-> d \div g]
Zero == [num |-> 0, den |-> 1]
LessEq(x, y) == x.num * y.den <= y.num * x.den
Less(x, y) == x.num * y.den < y.num * x.den

RECURSIVE SumSeq(_)
SumSeq(q) == IF q = <<>> THEN 0 ELSE Head(q) + SumSeq(Tail(q))

\* metrics.performance of the constructor and of resetMetrics (the 95th
\* percentile and the throughput are left out)
ZeroPerformance == [averageResponseTime |-> Zero, errorRate |-> Zero]

\* options.alertThresholds.errorRate and .processingTime (defaults 0.1, 0.8)
errorRateThreshold == [num |-> 1, den |-> 10]
processingTimeThreshold == [num |-> 4, den |-> 5]

\* the response times kept (the last 1000)
SampleCapacity == 1000

\* new PerformanceMonitor(options); times in seconds.  startTime records
\* which operation stamped metrics.timestamps.startTime last
PerformanceMonitor(options) ==
  [ maxProcessingTime |-> options.maxProcessingTime,
    requests          |-> ZeroRequests,
    performance       |-> ZeroPerformance,
    activeConnections |-> 0,
    startTime         |-> "constructor",
    responseTimes     |-> <<>>,
    monitoringTimer   |-> FALSE,     \* TRUE: holds the handle of an interval
    isMonitoring      |-> FALSE ]

\* recordRequestStart
recordRequestStart(m) ==
  [m EXCEPT !.requests.total = @ + 1,
            !.requests.inProgress = @ + 1]

\* variant: the error rate is taken over the requests that have ended
updatePerformanceMetricsOverEnded(m) ==
  IF Len(m.responseTimes) = 0 THEN m
  ELSE [m EXCEPT
          !.performance.averageResponseTime =
             Ratio(SumSeq(m.responseTimes), Len(m.responseTimes)),
          !.performance.errorRate =
             IF m.requests.completed + m.requests.failed > 0
             THEN Ratio(m.requests.failed, m.requests.completed + m.requests.failed)
             ELSE Zero]

\* updatePerformanceMetrics
updatePerformanceMetrics(m) ==
  IF Len(m.responseTimes) = 0 THEN m
  ELSE [m EXCEPT
          !.performance.averageResponseTime =
             Ratio(SumSeq(m.responseTimes), Len(m.responseTimes)),
          !.performance.errorRate =
             IF m.requests.total > 0
             THEN Ratio(m.requests.failed, m.requests.total)
             ELSE Zero]

\* the sample buffer after a push
pushResponseTime(times, duration) ==
  LET pushed == Append(times, duration)
  IN  IF Len(pushed) > SampleCapacity
      THEN SubSeq(pushed, Len(pushed) - SampleCapacity + 1, Len(pushed))
      ELSE pushed

\* variant: the in-progress counter is not decremented
recordRequestEndNoDecrement(m, success, duration) ==
  updatePerformanceMetrics(
    IF success
    THEN [m EXCEPT !.requests.completed = @ + 1,
                   !.responseTimes = pushResponseTime(@, duration)]
    ELSE [m EXCEPT !.requests.failed = @ + 1,
                   !.responseTimes = pushResponseTime(@, duration)])

\* recordRequestEnd (the fields it writes on the record are in rec)
recordRequestEnd(m, success, duration) ==
  updatePerformanceMetrics(
    IF success
    THEN [m EXCEPT !.requests.inProgress = @ - 1,
                   !.requests.completed = @ + 1,
                   !.responseTimes = pushResponseTime(@, duration)]
    ELSE [m EXCEPT !.requests.inProgress = @ - 1,
                   !.requests.failed = @ + 1,
                   !.responseTimes = pushResponseTime(@, duration)])

\* variant: the tick recounts the requests in progress from the connections
updateMetricsRecount(m) ==
  updatePerformanceMetrics([m EXCEPT !.requests.inProgress = m.activeConnections])

\* updateMetrics, as the interval callback calls it (checkAlerts only reads
\* and logs)
updateMetrics(m) ==
  updatePerformanceMetrics([m EXCEPT !.activeConnections = m.requests.inProgress])

\* resetMetrics: a fresh metrics object and sample buffer; the monitoring
\* flag and timer stay
resetMetrics(m) ==
  [m EXCEPT !.requests = ZeroRequests,
            !.performance = ZeroPerformance,
            !.activeConnections = 0,
            !.startTime = "resetMetrics",
            !.responseTimes = <<>>]

\* isSystemHealthy
isSystemHealthy(m) ==
  /\ LessEq(m.performance.errorRate, errorRateThreshold)
  /\ LessEq(m.performance.averageResponseTime,
            [num |-> m.maxProcessingTime * processingTimeThreshold.num,
             den |-> processingTimeThreshold.den])

\* startMonitoring and stopMonitoring work on the monitor m and the number
\* of live interval timers of the runtime

\* variant: startMonitoring without its isMonitoring guard
startMonitoringUnguarded(m, timers) ==
  [m |-> [m EXCEPT !.isMonitoring = TRUE, !.monitoringTimer = TRUE,
                   !.startTime = "startMonitoring"],
   timers |-> timers + 1]

\* startMonitoring
startMonitoring(m, timers) ==
  IF m.isMonitoring THEN [m |-> m, timers |-> timers]
  ELSE [m |-> [m EXCEPT !.isMonitoring = TRUE, !.monitoringTimer = TRUE,
                        !.startTime = "startMonitoring"],
        timers |-> timers + 1]

\* stopMonitoring
stopMonitoring(m, timers) ==
  IF ~m.isMonitoring THEN [m |-> m, timers |-> timers]
  ELSE [m |-> [m EXCEPT !.isMonitoring = FALSE, !.monitoringTimer = FALSE],
        timers |-> IF m.monitoringTimer THEN timers - 1 ELSE timers]

\* a request record as recordRequestStart builds it; ends counts the
\* recordRequestEnd calls made on it (observation)
NoRecord == [success |-> "none", ends |-> 0]
NewRecord == [success |-> "null", ends |-> 0]

\* ---------------------------------------------------- ResourceManager
\* options.memoryOptimizationThreshold and options.gracefulDegradationThreshold
\* (defaults 0.8 and 0.9), in percent
memoryOptimizationThreshold == 80
gracefulDegradationThreshold == 90

\* memoryUsage values the collaborators report, against a limit of 1000:
\* below, at and above each threshold
GaugeLevels == {700, 800, 900, 950}

\* the arguments of updateResourceLimits explored; 0 stands for a field the
\* caller left out (the code tests each field for truthiness): one field,
\* or both at their largest
NewLimits ==
  [ maxMemoryUsage : {1000, 1250}, maxProcessingTime : {0},
    maxConcurrentRequests : {0} ]
    \cup [ maxMemoryUsage : {0}, maxProcessingTime : {0},
           maxConcurrentRequests : ConfiguredCeilings ]
    \cup {[maxMemoryUsage |-> 1250, maxProcessingTime |-> 0,
           maxConcurrentRequests |-> 4]}

\* every combination of fields present (a value) or left out (0); times in
\* seconds
AllLimits ==
  [ maxMemoryUsage : {0, 1250}, maxProcessingTime : {0, 60},
    maxConcurrentRequests : {0, 1, 4} ]

\* new ResourceManager(options)
ResourceManager(options) ==
  [ maxConcurrentRequests |-> options.maxConcurrentRequests,
    maxMemoryUsage        |-> options.maxMemoryUsage,
    maxProcessingTime     |-> options.maxProcessingTime,
    isOptimizing          |-> FALSE,
    isDegraded            |-> FALSE,
    lastOptimization      |-> FALSE ]    \* TRUE: holds a timestamp

\* pass.pending: collaborators whose optimizeMemory promise has not settled;
\* pass.failed (observation): those whose optimizeMemory threw or rejected
NoPass == [owner |-> 0, pending |-> {}, failed |-> {}]

\* the work units handed to processRequest: a function, or a value that is
\* not callable
Handlers == {"function", "notCallable"}

\* call.outcome: what invoking the work unit gave ("none" until then): a
\* value, an error, the TypeError of calling what is not callable, or a
\* rejection with null or undefined ("nothing");
\* call.result: how the promise processRequest returned settled
Reasons == {"error", "nothing"}
\* call.entered (observation, kept until the call has returned): the call's
\* pressure check is the one that took the manager into degraded mode
NoCall == [pc |-> "idle", usage |-> 0, limit |-> 0, item |-> 0,
           handler |-> "none", outcome |-> "none", result |-> "none",
           entered |-> FALSE]

\* getCurrentMemoryUsage: the sum of the collaborators' gauges
RECURSIVE SumOver(_, _)
SumOver(g, ms) ==
  IF ms = {} THEN 0
  ELSE LET m == CHOOSE x \in ms : TRUE IN g[m] + SumOver(g, ms \ {m})

getCurrentMemoryUsage(g) == SumOver(g, DOMAIN g)

\* usage / limit > threshold and usage / limit < threshold, in percent
Above(usage, limit, threshold) == usage * 100 > threshold * limit
Below(usage, limit, threshold) == usage * 100 < threshold * limit

\* The operators below work on w = [rm, rq, pass, timers, pc]: the manager,
\* its queue, the pass in progress, the pending recovery timers and the
\* position the calling processRequest is left at.

\* variant: optimizeResources without its re-entrancy guard
optimizeResourcesUnguarded(w, p, stage, after) ==
  [w EXCEPT !.rm.isOptimizing = TRUE,
            !.pass = [owner |-> p, pending |-> DOMAIN gauge, failed |-> {}],
            !.pc = stage]

\* optimizeResources up to its await, called by processRequest p: a no-op
\* while a pass runs, else the pass starts and optimizeMemory is invoked on
\* every collaborator.  The caller waits at `stage`, or goes on at `after`.
optimizeResources(w, p, stage, after) ==
  IF w.rm.isOptimizing
  THEN [w EXCEPT !.pc = after]
  ELSE [w EXCEPT !.rm.isOptimizing = TRUE,
                 !.pass = [owner |-> p, pending |-> DOMAIN gauge, failed |-> {}],
                 !.pc = stage]

\* variant: the flag is reset at the end of the try block, not in a finally
optimizeResourcesDoneNoFinally(w, gcThrows) ==
  IF gcThrows
  THEN [w EXCEPT !.pass = NoPass]
  ELSE [w EXCEPT !.rq = clearHistory(w.rq),
                 !.rm.lastOptimization = TRUE,
                 !.rm.isOptimizing = FALSE,
                 !.pass = NoPass]

\* optimizeResources after Promise.all: the garbage-collection hook, then
\* history cleared and timestamp taken; an exception (gcThrows: the hook
\* threw, or Promise.all rejected) is caught and skips both; the flag is
\* reset either way
optimizeResourcesDone(w, gcThrows) ==
  IF gcThrows
  THEN [w EXCEPT !.rm.isOptimizing = FALSE,
                 !.pass = NoPass]
  ELSE [w EXCEPT !.rq = clearHistory(w.rq),
                 !.rm.lastOptimization = TRUE,
                 !.rm.isOptimizing = FALSE,
                 !.pass = NoPass]

\* how an optimizeMemory promise settles: resolved, rejected with a reason
\* (or thrown synchronously: the same handler catches it), or rejected with
\* null or undefined
Settlements == {"resolved", "rejected", "reasonless"}

\* the optimizeMemory promise of collaborator m settles.  A rejection is
\* caught, logged and dropped, and Promise.all resolves after the last
\* collaborator, when the pass finishes.  A rejection with null or undefined
\* makes the logging of that catch throw (error.message): Promise.all rejects
\* at once and the pass ends through the outer catch.
optimizeMemorySettled(w, m, how, gcThrows) ==
  IF how = "reasonless"
  THEN optimizeResourcesDone(w, TRUE)
  ELSE LET w1 == IF how = "resolved" THEN w ELSE [w EXCEPT !.pass.failed = @ \cup {m}]
       IN  IF w1.pass.pending = {m}
           THEN optimizeResourcesDone(w1, gcThrows)
           ELSE [w1 EXCEPT !.pass.pending = @ \ {m}]

\* variant: enableGracefulDegradation without its isDegraded guard
enableGracefulDegradationUnguarded(w, p) ==
  optimizeResources(
    [w EXCEPT !.rm.isDegraded = TRUE,
              !.rq = setMaxConcurrent(w.rq, Max(1, w.rm.maxConcurrentRequests \div 2))],
    p, "opt2", "opt2Done")

\* enableGracefulDegradation up to its await
enableGracefulDegradation(w, p) ==
  IF w.rm.isDegraded
  THEN [w EXCEPT !.pc = "checked"]
  ELSE optimizeResources(
         [w EXCEPT !.rm.isDegraded = TRUE,
                   !.rq = setMaxConcurrent(w.rq, Max(1, w.rm.maxConcurrentRequests \div 2))],
         p, "opt2", "opt2Done")

\* variant: the second test takes a new reading of the utilization
checkDegradationRereading(w, p, usage, limit) ==
  IF Above(getCurrentMemoryUsage(gauge), w.rm.maxMemoryUsage,
           gracefulDegradationThreshold)
  THEN enableGracefulDegradation(w, p)
  ELSE [w EXCEPT !.pc = "checked"]

\* checkResourcePressure from its second test on
checkDegradation(w, p, usage, limit) ==
  IF Above(usage, limit, gracefulDegradationThreshold)
  THEN enableGracefulDegradation(w, p)
  ELSE [w EXCEPT !.pc = "checked"]

\* variant: the optimization threshold is tested with >=
checkResourcePressureInclusive(w, p, usage, limit) ==
  IF ~Below(usage, limit, memoryOptimizationThreshold)
  THEN optimizeResources(w, p, "opt1", "opt1Done")
  ELSE checkDegradation(w, p, usage, limit)

\* checkResourcePressure up to its first await
checkResourcePressure(w, p, usage, limit) ==
  IF Above(usage, limit, memoryOptimizationThreshold)
  THEN optimizeResources(w, p, "opt1", "opt1Done")
  ELSE checkDegradation(w, p, usage, limit)

\* variant: the flag is cleared but the ceiling is not restored
disableGracefulDegradationNoRestore(w) ==
  IF ~w.rm.isDegraded THEN w
  ELSE [w EXCEPT !.rm.isDegraded = FALSE]

\* disableGracefulDegradation
disableGracefulDegradation(w) ==
  IF ~w.rm.isDegraded THEN w
  ELSE [w EXCEPT !.rm.isDegraded = FALSE,
                 !.rq = setMaxConcurrent(w.rq, w.rm.maxConcurrentRequests)]

\* variant: recovery is tested against the degradation threshold
checkDegradationRecoveryNoHysteresis(w, usage) ==
  IF Below(usage, w.rm.maxMemoryUsage, gracefulDegradationThreshold)
  THEN disableGracefulDegradation([w EXCEPT !.timers = @ - 1])
  ELSE w

\* variant: a check that finds utilization still high is not rescheduled
checkDegradationRecoveryNoReschedule(w, usage) ==
  IF Below(usage, w.rm.maxMemoryUsage, memoryOptimizationThreshold)
  THEN disableGracefulDegradation([w EXCEPT !.timers = @ - 1])
  ELSE [w EXCEPT !.timers = @ - 1]

\* checkDegradationRecovery, run by a timer that has just fired
checkDegradationRecovery(w, usage) ==
  IF Below(usage, w.rm.maxMemoryUsage, memoryOptimizationThreshold)
  THEN disableGracefulDegradation([w EXCEPT !.timers = @ - 1])
  ELSE w   \* the fired timer is replaced by a new one

\* variant: a new ceiling is applied to the queue and ends degraded mode
updateResourceLimitsEndsDegradation(w, newLimits) ==
  LET w0 == IF newLimits.maxMemoryUsage # 0
            THEN [w EXCEPT !.rm.maxMemoryUsage = newLimits.maxMemoryUsage]
            ELSE w
      w1 == IF newLimits.maxProcessingTime # 0
            THEN [w0 EXCEPT !.rm.maxProcessingTime = newLimits.maxProcessingTime]
            ELSE w0
  IN  IF newLimits.maxConcurrentRequests # 0
      THEN [w1 EXCEPT !.rm.maxConcurrentRequests = newLimits.maxConcurrentRequests,
                      !.rm.isDegraded = FALSE,
                      !.rq = setMaxConcurrent(w1.rq, newLimits.maxConcurrentRequests)]
      ELSE w1

\* variant: a new ceiling is applied to the queue whatever the mode
updateResourceLimitsAlwaysApplies(w, newLimits) ==
  LET w0 == IF newLimits.maxMemoryUsage # 0
            THEN [w EXCEPT !.rm.maxMemoryUsage = newLimits.maxMemoryUsage]
            ELSE w
      w1 == IF newLimits.maxProcessingTime # 0
            THEN [w0 EXCEPT !.rm.maxProcessingTime = newLimits.maxProcessingTime]
            ELSE w0
  IN  IF newLimits.maxConcurrentRequests # 0
      THEN [w1 EXCEPT !.rm.maxConcurrentRequests = newLimits.maxConcurrentRequests,
                      !.rq = setMaxConcurrent(w1.rq, newLimits.maxConcurrentRequests)]
      ELSE w1

\* updateResourceLimits
updateResourceLimits(w, newLimits) ==
  LET w0 == IF newLimits.maxMemoryUsage # 0
            THEN [w EXCEPT !.rm.maxMemoryUsage = newLimits.maxMemoryUsage]
            ELSE w
      w1 == IF newLimits.maxProcessingTime # 0
            THEN [w0 EXCEPT !.rm.maxProcessingTime = newLimits.maxProcessingTime]
            ELSE w0
  IN  IF newLimits.maxConcurrentRequests # 0
      THEN LET w2 == [w1 EXCEPT !.rm.maxConcurrentRequests = newLimits.maxConcurrentRequests]
           IN  IF ~w2.rm.isDegraded
               THEN [w2 EXCEPT !.rq = setMaxConcurrent(w2.rq, newLimits.maxConcurrentRequests)]
               ELSE w2
      ELSE w1

\* variant: isHealthy without its isDegraded test
isHealthyIgnoringMode(manager, monitor, usage) ==
  /\ Below(usage, manager.maxMemoryUsage, gracefulDegradationThreshold)
  /\ isSystemHealthy(monitor)

\* isHealthy, usage being what getCurrentMemoryUsage returns
isHealthy(manager, monitor, usage) ==
  /\ Below(usage, manager.maxMemoryUsage, gracefulDegradationThreshold)
  /\ isSystemHealthy(monitor)
  /\ ~manager.isDegraded

\* ----------------------------------------------------- ContractAnalyzer
\* A document text is the sequence of pieces text.split(/[.!?]+/) cuts it
\* into.  A piece is described by what the pipeline reads of it: length, the
\* length of its trimmed text (0: a blank piece); padding, how many of these
\* characters are runs of whitespace that cleanText and normalizeText
\* collapse; words, the keywords its lower-cased text includes.  Positions in
\* the text and processing times are not represented.

\* trimmed length a sentence must exceed to be considered a clause
SubstantialLength == 20

\* the confidence calculateConfidence returns for a category without
\* keywords: 0 / 0, that no comparison accepts
NaN == -1

\* the clause types explored, of the fifteen supported
supportedClauseTypes ==
  {"payment_terms", "termination_clause", "confidentiality_agreement"}

getKeywordsForCategory(category) ==
  CASE category = "payment_terms" ->
         {"payment", "pay", "invoice", "billing", "fee"}
    [] category = "termination_clause" ->
         {"terminate", "termination", "end", "expire", "cancel"}
    [] category = "confidentiality_agreement" ->
         {"confidential", "non-disclosure", "secret", "proprietary"}
    [] OTHER -> {}

\* the first category, in the order of the source, one of whose three
\* leading keywords the text includes
determineClauseType(text) ==
  IF text.words \cap {"payment", "pay", "invoice"} # {}
  THEN "payment_terms"
  ELSE IF text.words \cap {"terminate", "termination", "end"} # {}
  THEN "termination_clause"
  ELSE IF text.words \cap {"confidential", "non-disclosure", "secret"} # {}
  THEN "confidentiality_agreement"
  ELSE "unknown"

\* share of the category's keywords the clause includes, in hundredths
calculateConfidence(clause, category) ==
  LET keywords == getKeywordsForCategory(category)
      matchCount == Cardinality(clause.text.words \cap keywords)
  IN  IF keywords = {}
      THEN NaN
      ELSE (matchCount * 100) \div Cardinality(keywords)

\* confidence >= threshold, as JavaScript compares numbers
AtLeast(confidence, threshold) == confidence # NaN /\ confidence >= threshold

NonBlank(piece) == piece.length > 0
Substantial(clause) == clause.text.length > SubstantialLength

\* identifyClauses: the non-blank sentences longer than 20 characters, each
\* identified by its index among the non-blank sentences
identifyClauses(text) ==
  LET sentences == SelectSeq(text, NonBlank)
  IN  SelectSeq([index \in 1..Len(sentences) |->
                   [id |-> index - 1, text |-> sentences[index]]],
                Substantial)

categorizeClauses(clauses) ==
  [k \in 1..Len(clauses) |->
     LET category == determineClauseType(clauses[k].text)
     IN  [id |-> clauses[k].id, text |-> clauses[k].text,
          type |-> category, category |-> category,
          confidence |-> calculateConfidence(clauses[k], category)]]

\* groupClausesByType, reduced to the count of each group: a group for every
\* supported type and for every type present
clauseTypeCounts(clauses) ==
  [type \in supportedClauseTypes \cup {clauses[k].type : k \in 1..Len(clauses)} |->
     Cardinality({k \in 1..Len(clauses) : clauses[k].type = type})]

\* new ContractAnalyzer(config), config naming every option: the spread of
\* config is the last entry of this.config
ContractAnalyzer(config) ==
  [config |-> config,
   performanceMetrics |-> [totalAnalyses |-> 0, successfulAnalyses |-> 0]]

\* the configuration new ContractAnalyzer() builds
DefaultConfig ==
  [enableClauseExtraction |-> TRUE, enableRiskAnalysis |-> TRUE,
   enableRecommendations |-> TRUE, confidenceThreshold |-> 50]

\* _validateAnalysisInputs passes: the text is not empty once trimmed
validateAnalysisInputs(documentInput) ==
  \E i \in 1..Len(documentInput) : NonBlank(documentInput[i])

\* _parseAndPreprocessDocument of a text: the parser and the preprocessor
\* collapse the runs of whitespace
parseAndPreprocessDocument(documentInput) ==
  [text |-> [i \in 1..Len(documentInput) |->
               [documentInput[i] EXCEPT
                  !.length = documentInput[i].length - documentInput[i].padding,
                  !.padding = 0]],
   format |-> "txt"]

\* _extractAndCategorizeClauses
extractAndCategorizeClauses(analyzer, text) ==
  IF ~analyzer.config.enableClauseExtraction
  THEN <<>>
  ELSE LET categorizedClauses == categorizeClauses(identifyClauses(text))
           Confident(clause) ==
             AtLeast(clause.confidence, analyzer.config.confidenceThreshold)
       IN  SelectSeq(categorizedClauses, Confident)

\* What the risk analyzer, driven by the model's output, does in one analysis:
\* analyzeRisks returns an object with risks (a severity each), returns an
\* object without risks, or throws (the model is not loaded, or its output
\* cannot be used); generateMitigationStrategies returns recommendations or
\* throws likewise.
RiskLists == {<<"Critical">>, <<"Low", "Severe">>}
Recommendations == <<"review">>
\* generateMitigationStrategies is called only with risks to mitigate
ModelOutputs ==
  [analyzeRisks : {"risks"}, risks : RiskLists,
   mitigation : {"recommendations", "no_recommendations_field", "not_loaded",
                 "unusable"}]
  \cup [analyzeRisks : {"no_risks_field", "not_loaded", "unusable"},
        risks : {<<>>}, mitigation : {"uncalled"}]

severityWeight(severity) ==
  CASE severity = "Critical" -> 100
    [] severity = "High" -> 80
    [] severity = "Medium" -> 60
    [] severity = "Low" -> 40
    [] OTHER -> 50

\* _calculateOverallRiskScore
calculateOverallRiskScore(risks) ==
  IF Len(risks) = 0
  THEN Zero
  ELSE Ratio(SumSeq([k \in 1..Len(risks) |-> severityWeight(risks[k])]),
             100 * Len(risks))

\* _performRiskAnalysis: thrown tells that the failure is not absorbed;
\* defined tells that the object returned has a risks field
performRiskAnalysis(analyzer, clauses, output) ==
  IF ~analyzer.config.enableRiskAnalysis \/ Len(clauses) = 0
  THEN [thrown |-> FALSE, defined |-> TRUE, risks |-> <<>>]
  ELSE CASE output.analyzeRisks = "risks" ->
              [thrown |-> FALSE, defined |-> TRUE, risks |-> output.risks]
         [] output.analyzeRisks = "no_risks_field" ->
              [thrown |-> FALSE, defined |-> FALSE, risks |-> <<>>]
         [] output.analyzeRisks = "not_loaded" ->
              [thrown |-> FALSE, defined |-> TRUE, risks |-> <<>>]
         [] OTHER ->
              [thrown |-> TRUE, defined |-> FALSE, risks |-> <<>>]

\* _generateRecommendations: reading the length of a missing risks field
\* throws; a missing recommendations field reads as no recommendation
generateRecommendations(analyzer, riskAnalysis, output) ==
  IF ~analyzer.config.enableRecommendations
  THEN [thrown |-> FALSE, recommendations |-> <<>>]
  ELSE IF ~riskAnalysis.defined
  THEN [thrown |-> TRUE, recommendations |-> <<>>]
  ELSE IF Len(riskAnalysis.risks) = 0
  THEN [thrown |-> FALSE, recommendations |-> <<>>]
  ELSE CASE output.mitigation = "recommendations" ->
              [thrown |-> FALSE, recommendations |-> Recommendations]
         [] output.mitigation \in {"no_recommendations_field", "not_loaded"} ->
              [thrown |-> FALSE, recommendations |-> <<>>]
         [] OTHER ->
              [thrown |-> TRUE, recommendations |-> <<>>]

\* the entry of result.clauses made of a clause
ResultClause(clause) ==
  [id |-> clause.id, text |-> clause.text, type |-> clause.type,
   category |-> clause.category, confidence |-> clause.confidence]

\* what analyzeContract leaves when it throws
Thrown ==
  [status |-> "thrown",
   summary |-> [documentType |-> "none", totalClauses |-> 0,
                riskScore |-> Zero,
                clauseTypeCounts |-> [type \in {} |-> 0]],
   clauses |-> <<>>, risks |-> <<>>, recommendations |-> <<>>]

\* no analyzeContract call has completed
NoAnalysis == [Thrown EXCEPT !.status = "none"]

\* variant: the summary counts the sentences of the text instead of the
\* clauses kept
aggregateResultsCountingSentences(data) ==
  [status |-> "returned",
   summary |-> [documentType |-> data.parsedDocument.format,
                totalClauses |-> Len(SelectSeq(data.parsedDocument.text, NonBlank)),
                riskScore |-> calculateOverallRiskScore(data.riskAnalysis.risks),
                clauseTypeCounts |-> clauseTypeCounts(data.clauses)],
   clauses |-> [k \in 1..Len(data.clauses) |-> ResultClause(data.clauses[k])],
   risks |-> data.riskAnalysis.risks,
   recommendations |-> data.recommendations]

\* _aggregateResults
aggregateResults(data) ==
  [status |-> "returned",
   summary |-> [documentType |-> data.parsedDocument.format,
                totalClauses |-> Len(data.clauses),
                riskScore |-> calculateOverallRiskScore(data.riskAnalysis.risks),
                clauseTypeCounts |-> clauseTypeCounts(data.clauses)],
   clauses |-> [k \in 1..Len(data.clauses) |-> ResultClause(data.clauses[k])],
   risks |-> data.riskAnalysis.risks,
   recommendations |-> data.recommendations]

\* analyzeContract(documentInput) with the model producing output: what the
\* call returns or that it throws
analyzeContract(analyzer, documentInput, output) ==
  IF ~validateAnalysisInputs(documentInput)
  THEN Thrown
  ELSE LET parsedDocument == parseAndPreprocessDocument(documentInput)
           clauses == extractAndCategorizeClauses(analyzer, parsedDocument.text)
           riskAnalysis == performRiskAnalysis(analyzer, clauses, output)
           recommendations == generateRecommendations(analyzer, riskAnalysis, output)
       IN  IF riskAnalysis.thrown \/ recommendations.thrown
           THEN Thrown
           ELSE aggregateResults([parsedDocument |-> parsedDocument,
                                  clauses |-> clauses,
                                  riskAnalysis |-> riskAnalysis,
                                  recommendations |-> recommendations.recommendations])

\* _updatePerformanceMetrics
updateAnalyzerMetrics(analyzer, success) ==
  [analyzer EXCEPT
     !.performanceMetrics.totalAnalyses = @ + 1,
     !.performanceMetrics.successfulAnalyses = IF success THEN @ + 1 ELSE @]

\* --------------------------------------------------- ContractProcessor
\* an error message is a sequence of pieces of text; Includes(message, piece)
\* is message.includes(piece)
Marker == "api_fallback"
Includes(message, piece) == \E k \in 1..Len(message) : message[k] = piece

\* new ContractProcessor(config): the defaults, overridden by config; the
\* model of its modelManager is not loaded
DefaultProcessorConfig == [preferAIModel |-> TRUE, fallbackToAPI |-> TRUE]
ContractProcessor(config) ==
  [config |-> config,
   processingStats |-> [totalRequests |-> 0, aiModelRequests |-> 0,
                        apiRequests |-> 0, failures |-> 0],
   isLoaded |-> FALSE]

\* documents given to processContract: none, one without text or content,
\* one whose text is blank, one above 200000 characters, and a valid one
ProcessorDocuments == {"null", "noText", "blank", "tooLarge", "valid"}

\* validateInput: the message of the error it throws, <<>> if it returns
validateInput(document) ==
  CASE document = "null" -> <<"Document is required">>
    [] document = "noText" -> <<"Document must contain text or content">>
    [] document = "blank" -> <<"Document text must be a non-empty string">>
    [] document = "tooLarge" -> <<"Document too large. Maximum size is approximately 50,000 tokens.">>
    [] OTHER -> <<>>

\* what apiClient.analyzeContract followed by the normalizer gives: a result
\* with or without the five required fields, or an error (APIClient wraps
\* the message of the failure, which can be the server's own text)
ApiErrorMessages ==
  { <<"API analysis failed: ", "API request timeout">>,
    <<"API analysis failed: ", "API error 500: ", Marker>> }
ApiOutcomes ==
  [kind : {"result"}, wellFormed : BOOLEAN, message : {<<>>}]
    \cup [kind : {"error"}, wellFormed : {FALSE}, message : ApiErrorMessages]

\* what happens around one processContract call: the results of the
\* loadModel calls of determineProcessingMethod and of tryAIModel, whether
\* the model was unloaded (cleanup) between the two, and the outcomes of the
\* first and second API request
Environments ==
  [load1 : BOOLEAN, unloaded : BOOLEAN, load2 : BOOLEAN,
   api1 : ApiOutcomes, api2 : ApiOutcomes]

\* determineProcessingMethod; a loadModel that throws is one that fails
determineProcessingMethod(p, loadSuccess) ==
  IF ~p.config.preferAIModel THEN [method |-> "api_fallback", p |-> p]
  ELSE IF p.isLoaded THEN [method |-> "ai_model", p |-> p]
  ELSE IF loadSuccess
       THEN [method |-> "ai_model", p |-> [p EXCEPT !.isLoaded = TRUE]]
       ELSE [method |-> "api_fallback", p |-> p]

\* tryAIModel: the placeholder result has all required fields
tryAIModel(p, loadSuccess) ==
  LET counted == [p EXCEPT !.processingStats.aiModelRequests = @ + 1]
  IN  IF ~p.isLoaded /\ ~loadSuccess
      THEN [ok |-> FALSE, wellFormed |-> FALSE, p |-> counted, apiCalls |-> 0,
            message |-> <<"AI model processing failed: ", "Failed to load AI model">>]
      ELSE [ok |-> TRUE, wellFormed |-> TRUE, apiCalls |-> 0, message |-> <<>>,
            p |-> [counted EXCEPT !.isLoaded = TRUE]]

\* fallbackToAPI
fallbackToAPI(p, api) ==
  LET counted == [p EXCEPT !.processingStats.apiRequests = @ + 1]
  IN  IF api.kind = "error"
      THEN [ok |-> FALSE, wellFormed |-> FALSE, p |-> counted, apiCalls |-> 1,
            message |-> <<"API fallback processing failed: ">> \o api.message]
      ELSE [ok |-> TRUE, wellFormed |-> api.wellFormed, p |-> counted,
            apiCalls |-> 1, message |-> <<>>]

\* validateResults: the message of the error it throws, <<>> if it returns
validateResults(result) ==
  IF result.wellFormed THEN <<>>
  ELSE <<"Processing results missing required fields: ">>

\* what a processContract call did: the method chosen ("none" if the input
\* was rejected before), whether the chosen method threw, how many times
\* fallbackToAPI was invoked and failures incremented, and how it ended
NotProcessed ==
  [status |-> "none", method |-> "none", methodThrew |-> FALSE,
   fallbackCalls |-> 0, failuresAdded |-> 0, message |-> <<>>]

\* the catch handler of processContract up to its decision to try the API
\* fallback: p is the processor and tried what the try block did
processContractCatch(p, tried) ==
  LET failed == [p EXCEPT !.processingStats.failures = @ + 1]
  IN  IF failed.config.fallbackToAPI /\ ~Includes(tried.message, Marker)
      THEN [retry |-> TRUE, p |-> failed, failuresAdded |-> 1]
      ELSE [retry |-> FALSE, p |-> failed, failuresAdded |-> 1]

\* processContract(document) under environment env: the processor
\* afterwards and what the call did
processContract(p, document, env) ==
  LET counted == [p EXCEPT !.processingStats.totalRequests = @ + 1]
      invalid == validateInput(document)
      determined == determineProcessingMethod(counted, env.load1)
      method == IF invalid # <<>> THEN "none" ELSE determined.method
      chosen ==
        IF method = "ai_model"
        THEN tryAIModel(IF env.unloaded
                        THEN [determined.p EXCEPT !.isLoaded = FALSE]
                        ELSE determined.p, env.load2)
        ELSE fallbackToAPI(determined.p, env.api1)
      tried ==
        IF invalid # <<>>
        THEN [ok |-> FALSE, wellFormed |-> FALSE, p |-> counted, apiCalls |-> 0,
              message |-> invalid]
        ELSE IF chosen.ok /\ validateResults(chosen) # <<>>
             THEN [chosen EXCEPT !.ok = FALSE, !.message = validateResults(chosen)]
             ELSE chosen
      did == [NotProcessed EXCEPT !.method = method,
                                  !.methodThrew = method # "none" /\ ~chosen.ok]
  IN  IF tried.ok
      THEN [p |-> tried.p,
            call |-> [did EXCEPT !.status = "returned",
                                 !.fallbackCalls = tried.apiCalls]]
      ELSE LET caught == processContractCatch(tried.p, tried)
               fallback == fallbackToAPI(caught.p,
                                         IF tried.apiCalls = 0 THEN env.api1
                                         ELSE env.api2)
           IN  IF ~caught.retry
               THEN [p |-> caught.p,
                     call |-> [did EXCEPT !.status = "threw",
                                          !.fallbackCalls = tried.apiCalls,
                                          !.failuresAdded = caught.failuresAdded,
                                          !.message = tried.message]]
               ELSE [p |-> fallback.p,
                     call |-> [did EXCEPT
                       !.status = IF fallback.ok /\ fallback.wellFormed
                                  THEN "returned" ELSE "threw",
                       !.fallbackCalls = tried.apiCalls + fallback.apiCalls,
                       !.failuresAdded = caught.failuresAdded,
                       !.message = IF fallback.ok /\ fallback.wellFormed
                                   THEN <<>>
                                   ELSE <<"Both AI model and API fallback failed: ">>
                                          \o tried.message]]

\* the state after new ContractProcessor(config)
ProcessorConstructed(config) ==
  /\ cp = ContractProcessor(config)
  /\ processed = NotProcessed

\* ------------------------------------------------------------ actions
\* the state after new ContractAnalyzer(config)
AnalyzerConstructed(config) ==
  /\ ca = ContractAnalyzer(config)
  /\ analysis = NoAnalysis

\* the state after new ResourceManager({maxMemoryUsage: 1000,
\* maxConcurrentRequests: c}) and a registerModelManager for each collaborator
\* of g (g[m]: its memoryUsage), with the queue being new RequestQueue(q):
\* the manager's own queue when q = c
ServicesConstructed(c, q, g) ==
  /\ rm = ResourceManager([maxMemoryUsage |-> 1000, maxProcessingTime |-> 30,
                           maxConcurrentRequests |-> c])
  /\ rq = RequestQueue(q)
  /\ promise = [i \in Ids |-> "none"]
  /\ nextId = 1
  /\ dispatchLog = <<>>
  /\ settleLog = <<>>
  /\ pm = PerformanceMonitor([maxProcessingTime |-> 30])
  /\ intervals = 0
  /\ rec = [r \in RecIds |-> NoRecord]
  /\ nextRec = 1
  /\ gauge = g
  /\ pass = NoPass
  /\ call = [p \in Calls |-> NoCall]
  /\ recoveryTimers = 0

\* the services, and an analyzer built without options
ConstructedWith(c, q, g) ==
  /\ ServicesConstructed(c, q, g)
  /\ AnalyzerConstructed(DefaultConfig)
  /\ ProcessorConstructed(DefaultProcessorConfig)

\* one collaborator registered, reporting 700
Constructed(c, q) == ConstructedWith(c, q, [m \in {1} |-> 700])

\* a queue (and a monitor) used directly, for every constructor argument
Init == \E q \in CeilingChoices : Constructed(MaxCeiling, q)

\* a manager, for every configured ceiling
InitRM == \E c \in ConfiguredCeilings : Constructed(c, c)

\* memoryUsage values two collaborators report against a limit of 1000: their
\* sum is at the optimization threshold, above it, or above the degradation
\* threshold
SharedGaugeLevels == {400, 500}

\* a manager with two collaborators registered and a ceiling of 2
InitRM2 == ConstructedWith(2, 2, [m \in {1, 2} |-> 400])

\* a caller invokes queue.enqueue(workUnit)
Enqueue ==
  /\ nextId <= MaxItems
  /\ rq' = enqueue(rq, nextId)
  /\ promise' = [promise EXCEPT ![nextId] = "pending"]
  /\ nextId' = nextId + 1
  /\ dispatchLog' = dispatchLog \o Dispatched([rq EXCEPT !.queue = Append(@, nextId)], rq', "enqueue")
  /\ UNCHANGED <<avars, settleLog, pvars, rvars>>

\* the work unit of a dispatched item resolves (ok) or rejects
Settle(i, ok) ==
  /\ i \in rq.processing
  /\ rq' = settle(rq, i, ok)
  /\ promise' = [promise EXCEPT ![i] = IF ok THEN "resolved" ELSE "rejected"]
  /\ settleLog' = Append(settleLog, i)
  /\ dispatchLog' = dispatchLog \o Dispatched(rq, rq', "settle")
  /\ UNCHANGED <<avars, nextId, pvars, rvars>>

\* the work unit of a dispatched item rejects without a reason (null or
\* undefined): the promise enqueue returned stays pending
SettleReasonless(i) ==
  /\ i \in rq.processing
  /\ rq' = settleReasonless(rq, i)
  /\ UNCHANGED <<avars, promise, nextId, dispatchLog, settleLog, pvars, rvars>>

SetMaxConcurrent(n) ==
  /\ rq' = setMaxConcurrent(rq, n)
  /\ dispatchLog' = dispatchLog \o Dispatched(rq, rq', "raise")
  /\ UNCHANGED <<avars, promise, nextId, settleLog, pvars, rvars>>

ClearHistory ==
  /\ rq' = clearHistory(rq)
  /\ UNCHANGED <<avars, promise, nextId, dispatchLog, settleLog, pvars, rvars>>

NextQ ==
  \/ Enqueue
  \/ \E i \in Ids, ok \in BOOLEAN : Settle(i, ok)
  \/ \E i \in Ids : SettleReasonless(i)
  \/ \E n \in CeilingArgs : SetMaxConcurrent(n)
  \/ ClearHistory

SpecQ == Init /\ [][NextQ]_vars

\* the queue alone, its ceiling fixed at construction
NextQFixed ==
  \/ Enqueue
  \/ \E i \in Ids, ok \in BOOLEAN : Settle(i, ok)
  \/ \E i \in Ids : SettleReasonless(i)
  \/ ClearHistory

SpecQFixed == Init /\ [][NextQFixed]_vars

\* every dispatched work unit eventually settles; callers owe nothing
FairSpecQ ==
  /\ Init /\ [][NextQ]_vars
  /\ \A i \in Ids : WF_vars((\E ok \in BOOLEAN : Settle(i, ok)) \/ SettleReasonless(i))

\* ------------------------------------------------- RequestQueue claims
InFlight == Cardinality(rq.processing)
Waiting == Len(rq.queue)
Settled(i) == promise[i] \in {"resolved", "rejected"}

\* C1 as stated: in every reachable state the processing set holds at most
\* maxConcurrent items.
C1_ProcessingWithinCeiling == InFlight <= rq.maxConcurrent

\* C1 amended: the processing set starts within the ceiling; no block leaves
\* it above the ceiling after adding an item to it, and a block that takes it
\* from within the ceiling to above it is one that lowered maxConcurrent.
C1_ExceedsOnlyByLowering ==
  /\ InFlight <= rq.maxConcurrent
  /\ [][ Cardinality(rq'.processing) > rq'.maxConcurrent =>
           /\ rq'.processing \subseteq rq.processing
           /\ (InFlight <= rq.maxConcurrent => rq'.maxConcurrent < rq.maxConcurrent)
       ]_vars

\* C1 witness: the ceiling was lowered under items in flight, and an item waits
C1_LoweredUnderLoad == InFlight > rq.maxConcurrent /\ Waiting > 0

\* C2: items enter the processing set in enqueue order (identities are
\* assigned in enqueue order, so the dispatch order is increasing).
C2_DispatchFifo ==
  \A k \in 1..(Len(dispatchLog) - 1) : DispatchOrder[k] < DispatchOrder[k + 1]

\* C2 witness: every item was dispatched, some by a settlement and some by a
\* raised ceiling, and the completions were not in enqueue order
C2_AllDispatched ==
  /\ Len(dispatchLog) = MaxItems
  /\ \E k \in 1..Len(dispatchLog) : dispatchLog[k].by = "settle"
  /\ \E k \in 1..Len(dispatchLog) : dispatchLog[k].by = "raise"
  /\ \E k \in 1..(Len(settleLog) - 1) : settleLog[k] > settleLog[k + 1]

\* C3: with the ceiling constant at 1 the items complete in the order they
\* were enqueued, whatever the outcomes: their promises settle in that order
\* and each history list holds them in that order.
C3_SerialCompletionOrder ==
  rq.maxConcurrent = 1 =>
    /\ \A k \in 1..(Len(settleLog) - 1) : settleLog[k] < settleLog[k + 1]
    /\ \A k \in 1..(Len(rq.completed) - 1) : rq.completed[k] < rq.completed[k + 1]
    /\ \A k \in 1..(Len(rq.failed) - 1) : rq.failed[k] < rq.failed[k + 1]

\* C3 witness: ceiling 1, every item completed, both outcomes seen
C3_SerialRunDone ==
  /\ rq.maxConcurrent = 1
  /\ Len(settleLog) = MaxItems
  /\ \E i, j \in Ids : promise[i] = "resolved" /\ promise[j] = "rejected"

\* C4: every enqueued item's promise eventually settles (so the item was
\* dispatched), given only that dispatched work units settle.
C4_SelfDraining ==
  \A i \in Ids : (promise[i] = "pending") ~> Settled(i)

\* C5 as stated: between blocks no item waits while the processing set is
\* below the ceiling.
C5_WorkConserving == ~(Waiting > 0 /\ InFlight < rq.maxConcurrent)

\* C6: the queue's counters agree with its collections.
C6_QueueCounters ==
  /\ rq.metrics.totalRequests =
       InFlight + Waiting + Len(rq.completed) + Len(rq.failed)
  /\ rq.metrics.completedRequests = Len(rq.completed)
  /\ rq.metrics.failedRequests = Len(rq.failed)

\* C6 witness: history was cleared earlier (the total no longer counts every
\* enqueue), and since then an item failed while another is in flight
C6_CountersAfterClear ==
  /\ rq.metrics.totalRequests < nextId - 1
  /\ Len(rq.failed) > 0
  /\ InFlight > 0

\* C17 as stated: in the block that moves a failed item i to the failed list,
\* the promise of i is rejected and no other promise changes; every other
\* item in the processing set stays there, and the wait list keeps its order,
\* losing at most its head to the freed slot.
C17_FailureIsolation ==
  [][ \A i \in Ids :
        ( /\ i \in rq.processing
          /\ Len(rq'.failed) = Len(rq.failed) + 1
          /\ rq'.failed[Len(rq'.failed)] = i ) =>
            /\ promise'[i] = "rejected"
            /\ \A j \in Ids \ {i} : promise'[j] = promise[j]
            /\ rq.processing \ {i} \subseteq rq'.processing
            /\ \/ rq'.queue = rq.queue
               \/ /\ rq.queue # <<>>
                  /\ rq'.queue = Tail(rq.queue)
                  /\ Head(rq.queue) \in rq'.processing
    ]_vars

\* -------------------------------------------- PerformanceMonitor actions
RecordRequestStart ==
  /\ nextRec <= MaxRecords
  /\ pm' = recordRequestStart(pm)
  /\ rec' = [rec EXCEPT ![nextRec] = NewRecord]
  /\ nextRec' = nextRec + 1
  /\ UNCHANGED <<avars, intervals, qvars, rvars>>

\* durations (endTime - startTime) of requests, in seconds: one value where
\* the times do not matter; below, at and above maxProcessingTime x 0.8 = 24
\* where they do
UnitDuration == 10
Durations == {10, 24, 40}

\* recordRequestEnd on a record that recordRequestStart returned and that has
\* not been ended before
RecordRequestEnd(r, success) ==
  /\ rec[r].success = "null"
  /\ pm' = recordRequestEnd(pm, success, UnitDuration)
  /\ rec' = [rec EXCEPT ![r] = [success |-> IF success THEN "true" ELSE "false",
                                ends |-> @.ends + 1]]
  /\ UNCHANGED <<avars, intervals, nextRec, qvars, rvars>>

\* recordRequestEnd called again on a record that was already ended; a run
\* ends at most one of its records repeatedly
RecordRequestEndAgain(r, success) ==
  /\ rec[r].success \in {"true", "false"}
  /\ rec[r].ends < MaxEnds
  /\ \A other \in RecIds \ {r} : rec[other].ends <= 1
  /\ pm' = recordRequestEnd(pm, success, UnitDuration)
  /\ rec' = [rec EXCEPT ![r] = [success |-> IF success THEN "true" ELSE "false",
                                ends |-> @.ends + 1]]
  /\ UNCHANGED <<avars, intervals, nextRec, qvars, rvars>>

ResetMetrics ==
  /\ pm' = resetMetrics(pm)
  /\ UNCHANGED <<avars, intervals, rec, nextRec, qvars, rvars>>

StartMonitoring ==
  /\ LET x == startMonitoring(pm, intervals)
     IN  pm' = x.m /\ intervals' = x.timers
  /\ UNCHANGED <<avars, rec, nextRec, qvars, rvars>>

StopMonitoring ==
  /\ LET x == stopMonitoring(pm, intervals)
     IN  pm' = x.m /\ intervals' = x.timers
  /\ UNCHANGED <<avars, rec, nextRec, qvars, rvars>>

\* the interval fires: updateMetrics(), checkAlerts()
MonitorTick ==
  /\ intervals > 0
  /\ pm' = updateMetrics(pm)
  /\ UNCHANGED <<avars, intervals, rec, nextRec, qvars, rvars>>

NextPM ==
  \/ RecordRequestStart
  \/ \E r \in RecIds, success \in BOOLEAN : RecordRequestEnd(r, success)
  \/ ResetMetrics
  \/ StartMonitoring
  \/ StopMonitoring
  \/ MonitorTick

\* the monitor alone, every record ended at most once
SpecPM == Init /\ [][NextPM]_vars

NextPMAnyEnd ==
  \/ NextPM
  \/ \E r \in RecIds, success \in BOOLEAN : RecordRequestEndAgain(r, success)

\* the monitor alone, records may be ended repeatedly
SpecPMAnyEnd == Init /\ [][NextPMAnyEnd]_vars

\* ------------------------------------------- PerformanceMonitor claims
\* C7: total = completed + failed + inProgress in every reachable state.
C7_MonitorCounters ==
  pm.requests.total =
    pm.requests.completed + pm.requests.failed + pm.requests.inProgress

\* C7 witness: after a reset, requests have completed, failed and are still
\* in progress
C7_CountersInUse ==
  /\ pm.requests.total < nextRec - 1
  /\ pm.requests.completed + pm.requests.failed > 0
  /\ pm.requests.inProgress > 0

\* C8 as stated: the in-progress counter is never negative.
C8_InProgressNonNegative == pm.requests.inProgress >= 0

\* ----------------------------------------------- ResourceManager actions
World == [rm |-> rm, rq |-> rq, pass |-> pass, timers |-> recoveryTimers, pc |-> "idle"]

\* the manager-side effect of a block run on behalf of call p
Becomes(w) ==
  /\ rm' = w.rm
  /\ rq' = w.rq
  /\ pass' = w.pass
  /\ recoveryTimers' = w.timers

\* positions at which a call waits only for the microtask queue: its
\* continuation runs before any timer callback
MicrotaskStates == {"opt1Done", "opt2Done", "checked", "opt3Done", "resolved", "rejected"}
MicrotaskPending == \E p \in Calls : call[p].pc \in MicrotaskStates

\* the locals of checkResourcePressure (memoryUsage and the limit it was
\* divided by) live until the second test has been made; a reading above the
\* degradation threshold is kept, as an observation, until the work unit is
\* enqueued
Reading(c, pc, usage, limit) ==
  IF \/ pc \in {"opt1", "opt1Done"}
     \/ /\ pc \in {"opt2", "opt2Done", "checked"}
        /\ Above(usage, limit, gracefulDegradationThreshold)
  THEN [c EXCEPT !.pc = pc, !.usage = usage, !.limit = limit]
  ELSE [c EXCEPT !.pc = pc, !.usage = 0, !.limit = 0]

\* processNext invokes the wrapper processRequest enqueued when it moves the
\* item into the processing set (one item per block): the wrapper calls the
\* work unit, and one that is not callable throws there, so that the catch
\* of the wrapper calls optimizeResources before the block ends
invokeDispatched(w, c, before) ==
  LET started == { p \in Calls : /\ c[p].item \in w.rq.processing \ before.processing
                                 /\ c[p].handler = "notCallable" }
  IN  IF started = {}
      THEN [w |-> w, call |-> c]
      ELSE LET p == CHOOSE x \in started : TRUE
               w2 == optimizeResources(w, p, "opt3", "opt3Done")
           IN  [w |-> w2,
                call |-> [c EXCEPT ![p].pc = w2.pc, ![p].outcome = "typeError"]]

\* a block that may have dispatched an item
Runs(w, c) ==
  LET x == invokeDispatched(w, c, rq)
  IN  Becomes(x.w) /\ call' = x.call

\* processRequest(handler) up to its first await: recordRequestStart, then
\* checkResourcePressure up to its first await
ProcessRequest(handler) ==
  /\ nextRec <= MaxCalls
  /\ LET p == nextRec
         usage == getCurrentMemoryUsage(gauge)
         w == checkResourcePressure(World, p, usage, rm.maxMemoryUsage)
     IN  /\ Becomes(w)
         /\ call' = [call EXCEPT ![p] = Reading([@ EXCEPT !.handler = handler],
                                                w.pc, usage, rm.maxMemoryUsage)]
         /\ rec' = [rec EXCEPT ![p] = NewRecord]
  /\ pm' = recordRequestStart(pm)
  /\ nextRec' = nextRec + 1
  /\ UNCHANGED <<avars, promise, nextId, dispatchLog, settleLog, intervals, gauge>>

\* checkResourcePressure resumes after its optimizeResources call
ResumePressure(p) ==
  /\ call[p].pc = "opt1Done"
  /\ LET w == checkDegradation(World, p, call[p].usage, call[p].limit)
     IN  /\ Becomes(w)
         /\ call' = [call EXCEPT
                       ![p] = [Reading(@, w.pc, call[p].usage, call[p].limit)
                                 EXCEPT !.entered = ~rm.isDegraded /\ w.rm.isDegraded]]
  /\ UNCHANGED <<avars, promise, nextId, dispatchLog, settleLog, pvars, gauge>>

\* enableGracefulDegradation resumes after its optimizeResources call and
\* schedules the recovery check
ScheduleRecovery(p) ==
  /\ call[p].pc = "opt2Done"
  /\ recoveryTimers' = recoveryTimers + 1
  /\ call' = [call EXCEPT ![p].pc = "checked"]
  /\ UNCHANGED <<avars, qvars, pvars, rm, gauge, pass>>

\* processRequest resumes after the pressure check and enqueues the wrapped
\* handler
EnqueueRequest(p) ==
  /\ call[p].pc = "checked"
  /\ nextId <= MaxItems
  /\ Runs([World EXCEPT !.rq = enqueue(rq, nextId)],
          [call EXCEPT ![p] = [Reading(@, "enqueued", 0, 0) EXCEPT !.item = nextId]])
  /\ promise' = [promise EXCEPT ![nextId] = "pending"]
  /\ nextId' = nextId + 1
  /\ UNCHANGED <<avars, dispatchLog, settleLog, pvars, gauge>>

\* the handler of a dispatched call resolves: the wrapper returns its result
\* and the queue settles the item
HandlerResolves(p) ==
  /\ call[p].pc = "enqueued"
  /\ call[p].item \in rq.processing
  /\ Runs([World EXCEPT !.rq = settle(rq, call[p].item, TRUE)],
          [call EXCEPT ![p].pc = "resolved", ![p].outcome = "value"])
  /\ promise' = [promise EXCEPT ![call[p].item] = "resolved"]
  /\ UNCHANGED <<avars, nextId, dispatchLog, settleLog, pvars, gauge>>

\* variant: the wrapper rethrows at once, without the cleanup pass
HandlerRejectsNoCleanup(p, reason) ==
  /\ call[p].pc = "enqueued"
  /\ call[p].item \in rq.processing
  /\ Runs([World EXCEPT !.rq = settle(rq, call[p].item, FALSE)],
          [call EXCEPT ![p].pc = "rejected", ![p].outcome = reason])
  /\ promise' = [promise EXCEPT ![call[p].item] = "rejected"]
  /\ UNCHANGED <<avars, nextId, dispatchLog, settleLog, pvars, gauge>>

\* the handler of a dispatched call rejects: the wrapper's catch calls
\* optimizeResources and awaits it
HandlerRejects(p, reason) ==
  /\ call[p].pc = "enqueued"
  /\ call[p].item \in rq.processing
  /\ LET w == optimizeResources(World, p, "opt3", "opt3Done")
     IN  /\ Becomes(w)
         /\ call' = [call EXCEPT ![p].pc = w.pc, ![p].outcome = reason]
  /\ UNCHANGED <<avars, promise, nextId, dispatchLog, settleLog, pvars, gauge>>

\* the wrapper rethrows after its optimizeResources call and the queue
\* settles the item as failed; a rejection without a reason is lost in the
\* queue, and processRequest never resumes
FailurePropagates(p) ==
  /\ call[p].pc = "opt3Done"
  /\ IF call[p].outcome = "nothing"
     THEN /\ Runs([World EXCEPT !.rq = settleReasonless(rq, call[p].item)],
                  [call EXCEPT ![p].pc = "lost"])
          /\ UNCHANGED promise
     ELSE /\ Runs([World EXCEPT !.rq = settle(rq, call[p].item, FALSE)],
                  [call EXCEPT ![p].pc = "rejected"])
          /\ promise' = [promise EXCEPT ![call[p].item] = "rejected"]
  /\ UNCHANGED <<avars, nextId, dispatchLog, settleLog, pvars, gauge>>

\* variant: the end of the request is recorded without awaiting the queue
RecordEndEarly(p) ==
  /\ call[p].pc \in {"enqueued", "resolved", "rejected"}
  /\ pm' = recordRequestEnd(pm, call[p].pc # "rejected", UnitDuration)
  /\ rec' = [rec EXCEPT ![p] = [success |-> IF call[p].pc # "rejected" THEN "true" ELSE "false",
                                ends |-> @.ends + 1]]
  /\ call' = [call EXCEPT ![p].pc = "done",
                          ![p].entered = FALSE,
                          ![p].result = IF call[p].pc # "rejected"
                                        THEN "value" ELSE call[p].outcome]
  /\ UNCHANGED <<avars, qvars, intervals, nextRec, rm, gauge, pass, recoveryTimers>>

\* processRequest resumes after the enqueue promise settled, `duration`
\* after it started: recordRequestEnd, then return the result or rethrow the
\* error
RecordEndAfter(p, duration) ==
  /\ call[p].pc \in {"resolved", "rejected"}
  /\ pm' = recordRequestEnd(pm, call[p].pc = "resolved", duration)
  /\ rec' = [rec EXCEPT ![p] = [success |-> IF call[p].pc = "resolved" THEN "true" ELSE "false",
                                ends |-> @.ends + 1]]
  /\ call' = [call EXCEPT ![p].pc = "done",
                          ![p].entered = FALSE,
                          ![p].result = IF call[p].pc = "resolved"
                                        THEN "value" ELSE call[p].outcome]
  /\ UNCHANGED <<avars, qvars, intervals, nextRec, rm, gauge, pass, recoveryTimers>>

RecordEnd(p) == RecordEndAfter(p, UnitDuration)

\* where the owner of a pass goes on when the pass has ended
AfterPass(pc) ==
  CASE pc = "opt1" -> "opt1Done"
    [] pc = "opt2" -> "opt2Done"
    [] pc = "opt3" -> "opt3Done"

\* a collaborator's optimizeMemory settles; after the last one the pass
\* finishes and its caller goes on
OptimizeMemorySettled(m, how, gcThrows) ==
  /\ m \in pass.pending
  /\ LET w == optimizeMemorySettled(World, m, how, gcThrows)
     IN  /\ Becomes(w)
         /\ call' = IF w.pass.owner = 0
                    THEN [call EXCEPT ![pass.owner].pc = AfterPass(@)]
                    ELSE call
  /\ UNCHANGED <<avars, promise, nextId, dispatchLog, settleLog, pvars, gauge>>

\* a recovery timer fires
RecoveryCheck ==
  /\ recoveryTimers > 0
  /\ ~MicrotaskPending
  /\ Runs(checkDegradationRecovery(World, getCurrentMemoryUsage(gauge)), call)
  /\ UNCHANGED <<avars, promise, nextId, dispatchLog, settleLog, pvars, gauge>>

UpdateResourceLimits(newLimits) ==
  /\ Runs(updateResourceLimits(World, newLimits), call)
  /\ UNCHANGED <<avars, promise, nextId, dispatchLog, settleLog, pvars, gauge>>

\* a collaborator's memoryUsage changes
GaugeChange(m, v) ==
  /\ gauge[m] # v
  /\ gauge' = [gauge EXCEPT ![m] = v]
  /\ UNCHANGED <<avars, qvars, pvars, rm, pass, call, recoveryTimers>>

NextRM ==
  \/ ProcessRequest("function")
  \/ \E p \in Calls : ResumePressure(p)
  \/ \E p \in Calls : ScheduleRecovery(p)
  \/ \E p \in Calls : EnqueueRequest(p)
  \/ \E p \in Calls : HandlerResolves(p)
  \/ \E p \in Calls : HandlerRejects(p, "error")
  \/ \E p \in Calls : FailurePropagates(p)
  \/ \E p \in Calls : RecordEnd(p)
  \/ \E m \in DOMAIN gauge : OptimizeMemorySettled(m, "resolved", FALSE)
  \/ \E m \in DOMAIN gauge : OptimizeMemorySettled(m, "rejected", FALSE)
  \/ RecoveryCheck
  \/ \E newLimits \in NewLimits : UpdateResourceLimits(newLimits)
  \/ \E m \in DOMAIN gauge, v \in GaugeLevels : GaugeChange(m, v)

\* the manager with its queue and monitor, driven through processRequest with
\* callable work units, limits reconfigured at any time; rejections carry a
\* reason and the garbage-collection hook does not throw
SpecRM == InitRM /\ [][NextRM]_vars

NextRMCalls ==
  \/ \E handler \in Handlers : ProcessRequest(handler)
  \/ \E p \in Calls : ResumePressure(p)
  \/ \E p \in Calls : ScheduleRecovery(p)
  \/ \E p \in Calls : EnqueueRequest(p)
  \/ \E p \in Calls : HandlerResolves(p)
  \/ \E p \in Calls, reason \in Reasons : HandlerRejects(p, reason)
  \/ \E p \in Calls : FailurePropagates(p)
  \/ \E p \in Calls : RecordEnd(p)
  \/ \E m \in DOMAIN gauge, how \in Settlements, gcThrows \in BOOLEAN :
        OptimizeMemorySettled(m, how, gcThrows)
  \/ RecoveryCheck
  \/ \E m \in DOMAIN gauge, v \in GaugeLevels : GaugeChange(m, v)

\* the manager with its limits as constructed, driven through processRequest
\* with work units of every kind, the garbage-collection hook failing or not
SpecRMCalls == InitRM /\ [][NextRMCalls]_vars

NextRM2 ==
  \/ ProcessRequest("function")
  \/ \E p \in Calls : ResumePressure(p)
  \/ \E p \in Calls : ScheduleRecovery(p)
  \/ \E p \in Calls : EnqueueRequest(p)
  \/ \E p \in Calls : HandlerResolves(p)
  \/ \E p \in Calls : HandlerRejects(p, "error")
  \/ \E p \in Calls : FailurePropagates(p)
  \/ \E p \in Calls : RecordEnd(p)
  \/ \E m \in DOMAIN gauge, how \in Settlements, gcThrows \in BOOLEAN :
        OptimizeMemorySettled(m, how, gcThrows)
  \/ RecoveryCheck
  \/ \E m \in DOMAIN gauge, v \in SharedGaugeLevels : GaugeChange(m, v)

\* the manager with two collaborators, whose optimizeMemory settles in any
\* way and in any order, the garbage-collection hook failing or not
SpecRM2 == InitRM2 /\ [][NextRM2]_vars

\* every optimizeMemory call eventually settles
FairSpecRM2 ==
  /\ SpecRM2
  /\ \A m \in {1, 2} :
       WF_vars(\E how \in Settlements, gcThrows \in BOOLEAN :
                 OptimizeMemorySettled(m, how, gcThrows))

\* manager.start() and manager.stop(): the monitor's interval timer
Start == StartMonitoring
Stop == StopMonitoring

NextRMLife ==
  \/ NextRM
  \/ Start
  \/ Stop
  \/ MonitorTick

\* the manager as in SpecRM, started and stopped at any time, its monitor
\* ticking while started
SpecRMLife == InitRM /\ [][NextRMLife]_vars

\* a manager with a ceiling of 2
InitRMRecovery == Constructed(2, 2)

NextRMRecovery ==
  \/ ProcessRequest("function")
  \/ \E p \in Calls : ResumePressure(p)
  \/ \E p \in Calls : ScheduleRecovery(p)
  \/ \E p \in Calls : EnqueueRequest(p)
  \/ \E p \in Calls : HandlerResolves(p)
  \/ \E p \in Calls : RecordEnd(p)
  \/ \E m \in DOMAIN gauge : OptimizeMemorySettled(m, "resolved", FALSE)
  \/ RecoveryCheck
  \/ \E m \in DOMAIN gauge, v \in GaugeLevels : GaugeChange(m, v)

\* the manager driven through processRequest with work units that resolve,
\* the gauge moving at any time
SpecRMRecovery == InitRMRecovery /\ [][NextRMRecovery]_vars

NextRMLimits ==
  \/ NextRMRecovery
  \/ \E newLimits \in AllLimits : UpdateResourceLimits(newLimits)

\* the same, with any of its limits reconfigured at any time
SpecRMLimits == InitRMRecovery /\ [][NextRMLimits]_vars

\* updateResourceLimits({maxProcessingTime: 60000})
LongerProcessingTime ==
  [maxMemoryUsage |-> 0, maxProcessingTime |-> 60, maxConcurrentRequests |-> 0]

NextRMHealth ==
  \/ ProcessRequest("function")
  \/ \E p \in Calls : ResumePressure(p)
  \/ \E p \in Calls : ScheduleRecovery(p)
  \/ \E p \in Calls : EnqueueRequest(p)
  \/ \E p \in Calls : HandlerResolves(p)
  \/ \E p \in Calls : HandlerRejects(p, "error")
  \/ \E p \in Calls : FailurePropagates(p)
  \/ \E p \in Calls, duration \in Durations : RecordEndAfter(p, duration)
  \/ \E m \in DOMAIN gauge : OptimizeMemorySettled(m, "resolved", FALSE)
  \/ RecoveryCheck
  \/ UpdateResourceLimits(LongerProcessingTime)
  \/ \E m \in DOMAIN gauge, v \in GaugeLevels : GaugeChange(m, v)

\* the manager driven through processRequest with work units that resolve
\* or reject after any of the durations, the gauge moving and the
\* processing-time limit raised at any time
SpecRMHealth == InitRMRecovery /\ [][NextRMHealth]_vars

\* continuations of settled promises run, work units and optimizeMemory
\* calls settle, and a pending timer fires
FairSpecRMRecovery ==
  /\ SpecRMRecovery
  /\ \A p \in Calls :
       /\ WF_vars(ResumePressure(p))
       /\ WF_vars(ScheduleRecovery(p))
       /\ WF_vars(EnqueueRequest(p))
       /\ WF_vars(HandlerResolves(p))
       /\ WF_vars(RecordEnd(p))
  /\ \A m \in {1} : WF_vars(OptimizeMemorySettled(m, "resolved", FALSE))
  /\ WF_vars(RecoveryCheck)

\* ------------------------------------------------ ContractAnalyzer runs
\* pieces of text explored: a blank piece; a sentence of 22 characters, 3 of
\* them collapsed by the preprocessing; sentences of 40 characters naming
\* three of five payment keywords, two of four confidentiality keywords, one
\* of five termination keywords, and no keyword
Pieces ==
  { [length |-> 0, padding |-> 0, words |-> {}],
    [length |-> 22, padding |-> 3, words |-> {"payment", "pay", "invoice"}],
    [length |-> 40, padding |-> 0, words |-> {"payment", "pay", "invoice"}],
    [length |-> 40, padding |-> 0, words |-> {"confidential", "secret"}],
    [length |-> 40, padding |-> 0, words |-> {"terminate"}],
    [length |-> 40, padding |-> 0, words |-> {} ] }

\* texts handed to analyzeContract ("" included)
Documents == UNION {[1..n -> Pieces] : n \in 0..MaxSentences}

\* configurations the analyzer is built with
Configs ==
  [enableClauseExtraction : BOOLEAN, enableRiskAnalysis : BOOLEAN,
   enableRecommendations : BOOLEAN, confidenceThreshold : {50, 60}]

\* a caller awaits analyzer.analyzeContract(documentInput) while the model
\* produces output
AnalyzeContract(documentInput, output) ==
  /\ ca.performanceMetrics.totalAnalyses < MaxAnalyses
  /\ LET results == analyzeContract(ca, documentInput, output)
     IN  /\ analysis' = results
         /\ ca' = updateAnalyzerMetrics(ca, results.status = "returned")
  /\ UNCHANGED <<cp, processed, qvars, pvars, rvars>>

InitCA ==
  \E config \in Configs :
    /\ ServicesConstructed(1, 1, [m \in {1} |-> 700])
    /\ AnalyzerConstructed(config)
    /\ ProcessorConstructed(DefaultProcessorConfig)

NextCA ==
  \E documentInput \in Documents, output \in ModelOutputs :
    AnalyzeContract(documentInput, output)

\* an analyzer alone, for every configuration
SpecCA == InitCA /\ [][NextCA]_vars

\* configurations given to the ContractProcessor constructor
ProcessorConfigs == [preferAIModel : BOOLEAN, fallbackToAPI : BOOLEAN]

\* a processContract call, from its first to its last statement; calls that
\* overlap share only processingStats, whose increments commute, and the
\* loaded flag, which env.unloaded lets change under the call
ProcessContract(document, env) ==
  /\ cp.processingStats.totalRequests < MaxProcessed
  /\ LET done == processContract(cp, document, env)
     IN  /\ cp' = done.p
         /\ processed' = done.call
  /\ UNCHANGED <<ca, analysis, qvars, pvars, rvars>>

InitCP ==
  \E config \in ProcessorConfigs :
    /\ ServicesConstructed(1, 1, [m \in {1} |-> 700])
    /\ AnalyzerConstructed(DefaultConfig)
    /\ ProcessorConstructed(config)

NextCP ==
  \E document \in ProcessorDocuments, env \in Environments :
    ProcessContract(document, env)

\* a processor alone, for every configuration
SpecCP == InitCP /\ [][NextCP]_vars

\* --------------------------------------------- ResourceManager claims
HalvedCeiling(c) == Max(1, c \div 2)
UsageNow == getCurrentMemoryUsage(gauge)

\* C9 as stated: while degraded the queue ceiling is half the currently
\* configured maxConcurrentRequests (at least 1), otherwise it equals it.
C9_CeilingTracksConfigured ==
  IF rm.isDegraded
  THEN rq.maxConcurrent = HalvedCeiling(rm.maxConcurrentRequests)
  ELSE rq.maxConcurrent = rm.maxConcurrentRequests

\* C9 amended: while not degraded the queue ceiling equals the configured
\* maxConcurrentRequests; the block that enters degraded mode sets it to half
\* the value configured then (at least 1), and no block that leaves the
\* manager degraded changes it, whatever updateResourceLimits configures.
C9_CeilingFollowsMode ==
  /\ (~rm.isDegraded => rq.maxConcurrent = rm.maxConcurrentRequests)
  /\ [][ IF ~rm'.isDegraded
         THEN rq'.maxConcurrent = rm'.maxConcurrentRequests
         ELSE IF rm.isDegraded
              THEN rq'.maxConcurrent = rq.maxConcurrent
              ELSE rq'.maxConcurrent = HalvedCeiling(rm'.maxConcurrentRequests)
       ]_vars

\* C9 witness: the configured ceiling was changed while degraded and the
\* queue kept the ceiling it was given on entry
C9_ReconfiguredWhileDegraded ==
  /\ rm.isDegraded
  /\ rq.maxConcurrent # HalvedCeiling(rm.maxConcurrentRequests)

\* C10: (a) when the pressure check of a call whose reading was above the
\* degradation threshold makes its second test, the manager is degraded
\* afterwards, and if it was not before, the queue ceiling is half the
\* configured one (at least 1); (b) a recovery check that reads utilization
\* below the optimization threshold clears isDegraded and restores the
\* configured ceiling; (c) any other reading leaves the manager degraded,
\* the ceiling as it is and a check pending.
C10_Hysteresis ==
  /\ [][ \A p \in Calls :
           ( /\ call[p].pc = "opt1Done" /\ call'[p].pc # "opt1Done"
             /\ Above(call[p].usage, call[p].limit, gracefulDegradationThreshold) )
           => /\ rm'.isDegraded
              /\ ~rm.isDegraded =>
                    rq'.maxConcurrent = HalvedCeiling(rm.maxConcurrentRequests)
       ]_vars
  /\ [][ RecoveryCheck =>
           IF Below(UsageNow, rm.maxMemoryUsage, memoryOptimizationThreshold)
           THEN /\ rm.isDegraded /\ ~rm'.isDegraded
                /\ rq'.maxConcurrent = rm.maxConcurrentRequests
           ELSE /\ rm'.isDegraded
                /\ rq'.maxConcurrent = rq.maxConcurrent
                /\ recoveryTimers' > 0
       ]_vars

\* C10 witness: the manager was degraded by a pressure check (ceiling halved,
\* below the configured one), the gauge has since fallen below the
\* optimization threshold and the recovery timer is due
C10_RecoveryDue ==
  /\ rm.isDegraded
  /\ rq.maxConcurrent = HalvedCeiling(rm.maxConcurrentRequests)
  /\ rq.maxConcurrent < rm.maxConcurrentRequests
  /\ Below(UsageNow, rm.maxMemoryUsage, memoryOptimizationThreshold)
  /\ ENABLED RecoveryCheck

\* C11: isDegraded is false initially; it becomes true only in a block in
\* which a pressure check makes its second test on a reading above the
\* degradation threshold; it becomes false only in a recovery check that
\* reads utilization below the optimization threshold; no other step
\* (a pass ending, updateResourceLimits, start, stop, the monitor tick, a
\* work unit failing) changes it.
C11_DegradationStateMachine ==
  /\ ~rm.isDegraded
  /\ [][ /\ (~rm.isDegraded /\ rm'.isDegraded) =>
              \E p \in Calls :
                /\ call[p].pc = "opt1Done"
                /\ call'[p].pc \in {"opt2", "opt2Done"}
                /\ Above(call[p].usage, call[p].limit, gracefulDegradationThreshold)
         /\ (rm.isDegraded /\ ~rm'.isDegraded) =>
              /\ RecoveryCheck
              /\ Below(UsageNow, rm.maxMemoryUsage, memoryOptimizationThreshold)
       ]_vars

\* C11 witness: the manager is degraded and waits for its recovery check
\* while it was started, its limits were updated and a work unit has failed
C11_DegradedAmongOthers ==
  /\ rm.isDegraded
  /\ recoveryTimers > 0
  /\ pm.isMonitoring
  /\ rm.maxMemoryUsage = 1250
  /\ \E p \in Calls : call[p].result = "error"

\* C12: the block in which processRequest is called reads u = usage / limit;
\* if u is above the optimization threshold, optimizeResources is invoked
\* in that block (a pass runs afterwards: the one it started, owned by the
\* call, or the one that made it a no-op); if u is not above it, the pressure
\* check invokes nothing: manager, queue and pass are unchanged and the call
\* goes on to enqueue.  A call whose reading was above the degradation
\* threshold enqueues its work unit with isDegraded true.
C12_PressureCheckedOnEveryCall ==
  /\ [][ nextRec' = nextRec + 1 =>
           IF Above(UsageNow, rm.maxMemoryUsage, memoryOptimizationThreshold)
           THEN /\ rm'.isOptimizing
                /\ IF rm.isOptimizing
                   THEN pass' = pass /\ call'[nextRec].pc = "opt1Done"
                   ELSE /\ pass' = [owner |-> nextRec, pending |-> DOMAIN gauge, failed |-> {}]
                        /\ call'[nextRec].pc = "opt1"
           ELSE /\ rm' = rm /\ rq' = rq /\ pass' = pass
                /\ recoveryTimers' = recoveryTimers
                /\ call'[nextRec].pc = "checked"
       ]_vars
  /\ [][ \A p \in Calls :
           ( /\ call[p].item = 0 /\ call'[p].item # 0
             /\ Above(call[p].usage, call[p].limit, gracefulDegradationThreshold) )
           => rm.isDegraded /\ rm'.isDegraded
       ]_vars

\* C12 witness: limit 1000, the collaborator at 950, one processRequest call
\* whose pressure check has finished: the pass it started has ended
\* and the manager is degraded
C12_CriticalCallChecked ==
  /\ nextRec = 2
  /\ call[1].pc = "checked"
  /\ call[1].usage = 950 /\ call[1].limit = 1000
  /\ rm.lastOptimization /\ ~rm.isOptimizing
  /\ rm.isDegraded

\* positions of a call inside checkResourcePressure, and between enqueue and
\* the settlement of its queue item
InPressureCheck == {"opt1", "opt1Done", "opt2", "opt2Done", "checked"}
InQueue == {"enqueued", "opt3", "opt3Done"}

\* where a call stands against its record, its queue item and its result
RecordedInOrder ==
  \A p \in Calls :
       /\ call[p].pc = "idle" => rec[p] = NoRecord /\ call[p].item = 0
       /\ call[p].pc \in InPressureCheck =>
            rec[p] = NewRecord /\ call[p].item = 0 /\ call[p].result = "none"
       /\ call[p].pc \in InQueue \cup {"lost"} =>
            /\ rec[p] = NewRecord /\ call[p].result = "none"
            /\ call[p].item # 0 /\ promise[call[p].item] = "pending"
       /\ call[p].pc \in {"resolved", "rejected"} =>
            /\ rec[p] = NewRecord /\ call[p].result = "none"
            /\ promise[call[p].item] = call[p].pc
       /\ call[p].pc = "done" =>
            /\ rec[p].ends = 1
            /\ promise[call[p].item] \in {"resolved", "rejected"}
            /\ rec[p].success = "true" <=> promise[call[p].item] = "resolved"
            /\ call[p].result = "value" <=> promise[call[p].item] = "resolved"
            /\ call[p].result # "none"

C14_OutcomePassedThrough ==
  \A p \in Calls :
    (call[p].outcome # "none" /\ call[p].item \notin rq.processing) =>
      /\ promise[call[p].item] =
           IF call[p].outcome = "value" THEN "resolved" ELSE "rejected"
      /\ call[p].pc = "done" => call[p].result = call[p].outcome

\* a call whose failure-path optimizeResources call has not returned to it
\* holds its queue item in the processing set, its promise pending and its
\* record open
CleanupBeforeFailure ==
  \A p \in Calls :
    call[p].pc \in {"opt3", "opt3Done"} =>
      /\ call[p].item \in rq.processing
      /\ promise[call[p].item] = "pending"
      /\ rec[p] = NewRecord /\ call[p].result = "none"
      /\ call[p].outcome \in {"error", "nothing", "typeError"}

\* C15: when the work unit of a call fails, optimizeResources is called in
\* the same block (a pass runs afterwards: its own or the one that made the
\* call a no-op); while that call has not returned, the item stays in the
\* processing set (its slot is not free), its promise is pending and the end
\* of the request is not recorded; the item of a failed work unit leaves the
\* processing set only in the block that follows the return of that call;
\* and the work unit, once invoked, is not invoked again.
C15_CleanupBeforePropagation ==
  /\ CleanupBeforeFailure
  /\ [][ /\ CleanupBeforeFailure'
         /\ \A p \in Calls :
              /\ (call[p].outcome = "none" /\ call'[p].outcome \notin {"none", "value"}) =>
                   /\ rm'.isOptimizing
                   /\ call'[p].pc \in {"opt3", "opt3Done"}
                   /\ call'[p].pc = "opt3" <=> pass'.owner = p
              /\ ( /\ call[p].item \in rq.processing
                   /\ call'[p].item \notin rq'.processing
                   /\ call'[p].outcome # "value" ) =>
                   call[p].pc = "opt3Done" /\ pass.owner # p
              /\ call[p].outcome # "none" =>
                   call'[p].outcome = call[p].outcome /\ call'[p].pc # "enqueued"
       ]_vars

\* C15 witness: the work unit of a call has rejected and the pass its
\* cleanup started is running, while the next item waits for the slot
C15_CleanupHoldsSlot ==
  \E p \in Calls :
    /\ call[p].pc = "opt3" /\ pass.owner = p
    /\ call[p].outcome = "error"
    /\ Len(rq.queue) > 0

\* C16 as stated: a call whose work unit is not callable enqueues nothing
\* (the queue never holds an item of it) and triggers no failure-path
\* optimizeResources call.
C16_AdmissionErrorBeforeEnqueue ==
  \A p \in Calls :
    call[p].handler = "notCallable" =>
      /\ call[p].item = 0
      /\ call[p].pc \notin {"opt3", "opt3Done"}

\* positions of a call that awaits the pass it started, and positions of a
\* call whose optimizeResources call has just returned
AwaitsPass == {"opt1", "opt2", "opt3"}
PassReturned == {"opt1Done", "opt2Done", "opt3Done"}

\* isOptimizing is true exactly while a pass runs, and one call awaits it:
\* the one that started it
OnePass ==
  /\ rm.isOptimizing <=> pass.owner # 0
  /\ pass.owner = 0 => pass = NoPass
  /\ \A p \in Calls : call[p].pc \in AwaitsPass <=> pass.owner = p

\* C18: at most one pass is active, isOptimizing is true exactly while it
\* runs, and a call of optimizeResources made while isOptimizing is true
\* returns at once: the running pass is untouched (no collaborator is
\* invoked again), the queue history is not cleared, isOptimizing stays true
\* and lastOptimization is unchanged.
C18_ReentrancyGuard ==
  /\ OnePass
  /\ [][ /\ OnePass'
         /\ \A p \in Calls :
              ( /\ rm.isOptimizing
                /\ call[p].pc \notin AwaitsPass \cup PassReturned
                /\ call'[p].pc \in PassReturned ) =>
                  /\ pass' = pass
                  /\ rm'.isOptimizing
                  /\ rm'.lastOptimization = rm.lastOptimization
                  /\ rq'.completed = rq.completed /\ rq'.failed = rq.failed
                  /\ rq'.metrics = rq.metrics
       ]_vars

\* C18 witness: while the pass of one call runs with both collaborators
\* pending, the optimizeResources call of another call has returned at once
C18_SecondCallSkipped ==
  \E p, q \in Calls :
    /\ p # q
    /\ pass.owner = p /\ pass.pending = {1, 2}
    /\ call[q].pc \in PassReturned

C20_CollaboratorIsolation ==
  [][ \A m \in DOMAIN gauge, how \in Settlements :
        (OptimizeMemorySettled(m, how, FALSE) /\ pass'.owner = 0) =>
          /\ pass.pending = {m}
          /\ rq'.completed = <<>> /\ rq'.failed = <<>>
          /\ rm'.lastOptimization
    ]_vars

\* the recovery checks pending or about to be scheduled: the timers, and the
\* calls whose enableGracefulDegradation awaits its optimizeResources call
AwaitsSchedule == {p \in Calls : call[p].pc \in {"opt2", "opt2Done"}}
OneCheckPerEpisode ==
  recoveryTimers + Cardinality(AwaitsSchedule) = IF rm.isDegraded THEN 1 ELSE 0

\* C21: enableGracefulDegradation (reached by the second test of a pressure
\* check on a reading above the degradation threshold) called while degraded
\* changes neither the manager, the queue, the pass in progress nor the
\* recovery timers, and its caller goes on without scheduling a check; called
\* while not degraded it sets isDegraded, sets the ceiling to
\* max(1, floor(configured / 2)) and calls optimizeResources (a pass starts
\* unless one runs), and when that call has returned schedules one recovery
\* check; so that a degraded manager has exactly one recovery check pending
\* or about to be scheduled, and a manager that is not degraded has none.
C21_EnableIdempotent ==
  /\ OneCheckPerEpisode
  /\ [][ /\ OneCheckPerEpisode'
         /\ \A p \in Calls :
              ( /\ call[p].pc = "opt1Done" /\ call'[p].pc # "opt1Done"
                /\ Above(call[p].usage, call[p].limit, gracefulDegradationThreshold) )
              => IF rm.isDegraded
                 THEN /\ rm' = rm /\ rq' = rq /\ pass' = pass
                      /\ recoveryTimers' = recoveryTimers
                      /\ call'[p].pc = "checked"
                 ELSE /\ rm'.isDegraded
                      /\ rq'.maxConcurrent = HalvedCeiling(rm.maxConcurrentRequests)
                      /\ recoveryTimers' = recoveryTimers
                      /\ IF rm.isOptimizing
                         THEN pass' = pass /\ call'[p].pc = "opt2Done"
                         ELSE /\ pass'.owner = p /\ pass'.pending = DOMAIN gauge
                              /\ rm'.isOptimizing /\ call'[p].pc = "opt2"
         /\ \A p \in Calls :
              (call[p].pc = "opt2Done" /\ call'[p].pc # "opt2Done")
              => recoveryTimers' = recoveryTimers + 1 /\ call'[p].pc = "checked"
       ]_vars

\* C21 witness: two calls read utilization above the degradation threshold
\* and both have made the second test: one entered degraded mode and
\* scheduled the check, for the other the call was a no-op
C21_SecondEnableSkipped ==
  /\ rm.isDegraded /\ recoveryTimers = 1
  /\ \A p \in Calls :
       /\ call[p].pc = "checked"
       /\ Above(call[p].usage, call[p].limit, gracefulDegradationThreshold)

\* the reading a recovery check would take now is below the optimization
\* threshold
UtilizationLow ==
  \E usage \in {UsageNow} :
    Below(usage, rm.maxMemoryUsage, memoryOptimizationThreshold)

\* C22: a recovery check that reads utilization below the optimization
\* threshold clears isDegraded and leaves no check pending; one that reads
\* it at or above the threshold leaves the manager degraded with exactly
\* one check pending; while utilization is at or above the threshold no
\* step ends degraded mode or leaves a degraded manager without its pending
\* check; and if utilization stays below the threshold from some time on,
\* the manager is eventually, and from then on, not degraded.
C22_RecoveryLoop ==
  /\ [][ RecoveryCheck =>
           IF UtilizationLow
           THEN ~rm'.isDegraded /\ recoveryTimers' = 0
           ELSE rm'.isDegraded /\ recoveryTimers' = 1
       ]_vars
  /\ [][ (rm.isDegraded /\ ~UtilizationLow) =>
           /\ rm'.isDegraded
           /\ recoveryTimers > 0 => recoveryTimers' > 0
       ]_vars
  /\ (<>[]UtilizationLow) => (<>[]~rm.isDegraded)

\* C22 witness: the manager is degraded, every call has returned, the
\* recovery timer is due and utilization is exactly at the optimization
\* threshold: the check will be rescheduled
C22_CheckDueAtThreshold ==
  /\ rm.isDegraded /\ recoveryTimers = 1
  /\ \A p \in Calls : call[p].pc = "done"
  /\ ENABLED RecoveryCheck
  /\ ~UtilizationLow
  /\ ~Above(UsageNow, rm.maxMemoryUsage, memoryOptimizationThreshold)

\* C23: updateResourceLimits sets the queue's maxConcurrent to a ceiling
\* it is given if the manager is not degraded, and leaves it as it is if the
\* manager is degraded; the configured ceiling is updated either way, and is
\* the one the queue gets when degraded mode ends; a limit the argument
\* leaves out keeps its value, and the call changes neither isDegraded nor
\* isOptimizing.
C23_LimitsUpdate ==
  /\ [][ \A newLimits \in AllLimits :
           UpdateResourceLimits(newLimits) =>
             /\ IF newLimits.maxConcurrentRequests # 0
                THEN /\ rm'.maxConcurrentRequests = newLimits.maxConcurrentRequests
                     /\ rq'.maxConcurrent = IF rm.isDegraded
                                            THEN rq.maxConcurrent
                                            ELSE newLimits.maxConcurrentRequests
                ELSE /\ rm'.maxConcurrentRequests = rm.maxConcurrentRequests
                     /\ rq'.maxConcurrent = rq.maxConcurrent
             /\ rm'.maxMemoryUsage = IF newLimits.maxMemoryUsage # 0
                                     THEN newLimits.maxMemoryUsage
                                     ELSE rm.maxMemoryUsage
             /\ rm'.maxProcessingTime = IF newLimits.maxProcessingTime # 0
                                        THEN newLimits.maxProcessingTime
                                        ELSE rm.maxProcessingTime
             /\ rm'.isDegraded = rm.isDegraded
             /\ rm'.isOptimizing = rm.isOptimizing
       ]_vars
  /\ [][ (rm.isDegraded /\ ~rm'.isDegraded) =>
           rq'.maxConcurrent = rm.maxConcurrentRequests ]_vars

\* C23 witness: a manager constructed with a ceiling of 2 was given a
\* ceiling of 4, and nothing else, while degraded: the queue still has the
\* halved ceiling 1, the other limits are those it was constructed with
C23_CeilingDeferred ==
  /\ rm.isDegraded
  /\ rm.maxConcurrentRequests = 4 /\ rq.maxConcurrent = 1
  /\ rm.maxMemoryUsage = 1000 /\ rm.maxProcessingTime = 30

\* clearHistory has discarded some history: the total no longer counts every
\* enqueue
HistoryDiscarded == rq.metrics.totalRequests # nextId - 1

\* what a clearHistory call changes and what it leaves alone
ClearHistoryFrame ==
  [][ ClearHistory =>
        /\ rq'.completed = <<>> /\ rq'.failed = <<>>
        /\ rq'.queue = rq.queue
        /\ rq'.processing = rq.processing
        /\ rq'.maxConcurrent = rq.maxConcurrent
        /\ rq'.metrics.totalRequests = Len(rq.queue) + Cardinality(rq.processing)
        /\ rq'.metrics.completedRequests = 0
        /\ rq'.metrics.failedRequests = 0
        /\ promise' = promise
    ]_vars

\* C24 as stated: clearHistory empties the completed and failed lists, leaves
\* the wait list, the processing set and maxConcurrent as they are, sets the
\* total to the number of waiting and in-flight items and the other counters
\* to 0; and, dispatched work units settling, every item that waits or is in
\* flight once history has been discarded is eventually settled.
C24_ClearHistoryHarmless ==
  /\ ClearHistoryFrame
  /\ \A i \in Ids :
       ( /\ HistoryDiscarded
         /\ i \in rq.processing \/ \E k \in 1..Len(rq.queue) : rq.queue[k] = i )
       ~> Settled(i)

\* monitoring is on exactly when one interval timer is live, and the monitor
\* holds its handle
OneTickTimer ==
  /\ intervals = IF pm.isMonitoring THEN 1 ELSE 0
  /\ pm.monitoringTimer = pm.isMonitoring

\* C25: startMonitoring called while monitoring changes nothing of the
\* monitor (start time included) and creates no timer; stopMonitoring called
\* while not monitoring changes nothing; and in every reachable state
\* isMonitoring is true iff exactly one interval timer is live, and there is
\* never more than one.
C25_StartStopIdempotent ==
  /\ OneTickTimer
  /\ [][ /\ OneTickTimer'
         /\ (StartMonitoring /\ pm.isMonitoring) => UNCHANGED <<pm, intervals>>
         /\ (StopMonitoring /\ ~pm.isMonitoring) => UNCHANGED <<pm, intervals>>
       ]_vars

\* C25 witness: monitoring was started and stopped and started again, and
\* the metrics were reset since, which stamped a new start time: a further
\* startMonitoring has to leave that start time and the one timer alone
C25_StartedAndReset ==
  /\ pm.isMonitoring /\ intervals = 1
  /\ pm.startTime = "resetMetrics"
  /\ pm.requests.completed > 0

\* C26: the interval callback runs only while isMonitoring is true, and it
\* leaves the request counters, the sample buffer, the queue (ceiling
\* included), the manager (isDegraded and isOptimizing included), the pass
\* in progress, the recovery timers and every call where they are.
C26_TickObservational ==
  [][ MonitorTick =>
        /\ pm.isMonitoring
        /\ pm'.requests = pm.requests
        /\ pm'.responseTimes = pm.responseTimes
        /\ pm'.isMonitoring
        /\ UNCHANGED <<rq, rm, pass, recoveryTimers, call, promise, intervals>>
    ]_vars

\* C26 witness: a tick has copied the number of requests in progress, the
\* counters have moved on since, the manager is degraded and an item is in
\* flight
C26_TickedUnderLoad ==
  /\ pm.activeConnections > 0
  /\ pm.activeConnections # pm.requests.inProgress
  /\ rm.isDegraded
  /\ InFlight > 0

\* C27: isHealthy() is true iff utilization is below the degradation
\* threshold, the reported error rate is at most 0.1, the reported average
\* response time is at most 0.8 times the maxProcessingTime the monitor was
\* constructed with, and isDegraded is false; it is false whenever
\* isDegraded is true.
C27_HealthyIff ==
  /\ isHealthy(rm, pm, UsageNow)
       <=> /\ UsageNow * 100 < gracefulDegradationThreshold * rm.maxMemoryUsage
           /\ pm.performance.errorRate.num * 10 <= pm.performance.errorRate.den
           /\ pm.performance.averageResponseTime.num * 5
                 <= pm.maxProcessingTime * 4 * pm.performance.averageResponseTime.den
           /\ ~rm.isDegraded
  /\ rm.isDegraded => ~isHealthy(rm, pm, UsageNow)

\* C27 witness: the manager is degraded while everything else is in order:
\* utilization is low again, no request has failed and the average response
\* time is exactly at 0.8 times maxProcessingTime
C27_DegradedButOtherwiseFine ==
  /\ rm.isDegraded
  /\ UtilizationLow
  /\ pm.requests.completed > 0
  /\ pm.performance.errorRate = Zero
  /\ pm.performance.averageResponseTime = [num |-> 24, den |-> 1]

\* the monitor after the run of the example: four requests started, three
\* ended with success after 100, 200 and 300 ms and one with failure after
\* 50 ms (times in ms here)
RECURSIVE StartedTimes(_, _)
StartedTimes(m, n) == IF n = 0 THEN m ELSE StartedTimes(recordRequestStart(m), n - 1)
ExampleRun ==
  LET started == StartedTimes(PerformanceMonitor([maxProcessingTime |-> 30000]), 4)
      a == recordRequestEnd(started, TRUE, 100)
      b == recordRequestEnd(a, TRUE, 200)
      c == recordRequestEnd(b, TRUE, 300)
  IN  recordRequestEnd(c, FALSE, 50)

\* C28: in the state a recordRequestEnd call leaves, the reported error rate
\* is failed / total over the monitor's counters, total being the counter
\* recordRequestStart increments (0 if total is 0); after the run of the
\* example it is 1/4.
C28_ErrorRate ==
  /\ ExampleRun.performance.errorRate = [num |-> 1, den |-> 4]
  /\ [][ (pm'.responseTimes # pm.responseTimes /\ pm'.responseTimes # <<>>) =>
           LET e == pm'.performance.errorRate
               t == pm'.requests.total
               f == pm'.requests.failed
           IN  IF t > 0 THEN e.num * t = f * e.den ELSE e = Zero
       ]_vars

\* C28 witness: three requests were started, two have ended with success
\* and one with failure, and the reported error rate is 1/3
C28_OneFailureInThree ==
  /\ pm.requests = [total |-> 3, completed |-> 2, failed |-> 1, inProgress |-> 0]
  /\ pm.performance.errorRate = [num |-> 1, den |-> 3]

\* C29 as stated: once recordRequestEnd has set the success field of a
\* record, no step changes that field, and no recordRequestEnd call made on
\* that record changes the request counters.
C29_SuccessWriteOnce ==
  [][ \A r \in RecIds :
        rec[r].success \in {"true", "false"} =>
          /\ rec'[r].success = rec[r].success
          /\ rec'[r].ends # rec[r].ends => pm'.requests = pm.requests
    ]_vars

\* ---------------------------------------------- ContractAnalyzer claims
\* C30: every result analyzeContract returns has summary.totalClauses equal
\* to the number of entries of its clauses, whatever the text and whatever
\* the model produced.
C30_TotalClausesCounted ==
  analysis.status = "returned" =>
    analysis.summary.totalClauses = Len(analysis.clauses)

\* C30 witness: a result was returned for a text whose first sentence was
\* dropped and whose second is the only clause kept, the model having
\* reported risks
C30_SomeClausesDropped ==
  /\ analysis.status = "returned"
  /\ analysis.summary.totalClauses = 1
  /\ Len(analysis.clauses) = 1
  /\ analysis.clauses[1].id = 1
  /\ analysis.risks # <<>>

\* ------------------------------------------- RequestQueue under a manager
\* updateResourceLimits({maxConcurrentRequests: n})
CeilingLimits ==
  [maxMemoryUsage : {0}, maxProcessingTime : {0}, maxConcurrentRequests : {1, 4}]

NextRMOps ==
  \/ NextRMRecovery
  \/ \E p \in Calls : HandlerRejects(p, "error")
  \/ \E p \in Calls : FailurePropagates(p)
  \/ \E newLimits \in CeilingLimits : UpdateResourceLimits(newLimits)
  \/ Start
  \/ Stop

\* the manager with a ceiling of 2, driven through processRequest with work
\* units that resolve or reject, started and stopped and its ceiling
\* reconfigured at any time
SpecRMOps == InitRMRecovery /\ [][NextRMOps]_vars

\* the work unit of item i settles towards the queue: the wrapper
\* processRequest enqueued returns or rethrows
WorkUnitSettles(i) ==
  \E p \in Calls :
    /\ call[p].item = i
    /\ HandlerResolves(p) \/ FailurePropagates(p)

Waits(j) == \E k \in 1..Len(rq.queue) : rq.queue[k] = j
HoldsOnlySlot(i) == i \in rq.processing /\ rq.maxConcurrent = 1

\* C31: an item leaves the processing set only in the block in which its
\* own work unit settles, whatever else runs (a ceiling lowered by
\* degradation or updateResourceLimits, clearHistory at the end of a pass,
\* optimizeResources, stop); and from any instant from which an item stays
\* in the processing set for ever under a ceiling of 1, every item outside
\* the processing set stays outside it, a waiting item waiting for ever.
C31_NoPreemption ==
  /\ [][ \A i \in Ids :
           (i \in rq.processing /\ i \notin rq'.processing) => WorkUnitSettles(i) ]_vars
  /\ \A i \in Calls : \A j \in Calls \ {i} :
       /\ []( ([]HoldsOnlySlot(i) /\ j \notin rq.processing) => [](j \notin rq.processing) )
       /\ []( ([]HoldsOnlySlot(i) /\ Waits(j)) => []Waits(j) )

\* C31 witness: in a manager started and then stopped, degraded after a pass
\* that cleared the history, item 1 holds the only slot and item 2 waits
C31_SlotHeldThroughout ==
  /\ HoldsOnlySlot(1)
  /\ Waits(2)
  /\ rm.isDegraded
  /\ rm.lastOptimization
  /\ pm.startTime = "startMonitoring"
  /\ ~pm.isMonitoring

\* ------------------------------------------------- QueueItem lifecycle
\* the queue holds an item object of identity i
Held(q, i) == q.item[i] # NoItem
InWaitList(q, i) == \E k \in 1..Len(q.queue) : q.queue[k] = i
InCompleted(q, i) == \E k \in 1..Len(q.completed) : q.completed[k] = i
InFailed(q, i) == \E k \in 1..Len(q.failed) : q.failed[k] = i

\* the collections of the queue that hold item i
PlacesOf(q, i) ==
  {place \in {"wait", "processing", "completed", "failed"} :
     CASE place = "wait" -> InWaitList(q, i)
       [] place = "processing" -> i \in q.processing
       [] place = "completed" -> InCompleted(q, i)
       [] place = "failed" -> InFailed(q, i)}

\* the moves of an item between two states: it stays where it is; it is
\* created, in the wait list or dispatched at once; it goes from the wait
\* list to the processing set, from there to a history list, and from a
\* history list out of the queue
LifecycleMove(from, to) ==
  \/ to = from
  \/ from = {} /\ to \in {{"wait"}, {"processing"}}
  \/ from = {"wait"} /\ to = {"processing"}
  \/ from = {"processing"} /\ to \in {{"completed"}, {"failed"}}
  \/ from \in {{"completed"}, {"failed"}} /\ to = {}

\* where an item is, and what its timestamps and invocation count are there
ItemState ==
  \A i \in Ids :
    /\ Held(rq, i) <=> PlacesOf(rq, i) # {}
    /\ Held(rq, i) =>
         /\ Cardinality(PlacesOf(rq, i)) = 1
         /\ Cardinality({k \in 1..Len(rq.queue) : rq.queue[k] = i}) <= 1
         /\ rq.item[i].startedAt = "null" <=> InWaitList(rq, i)
         /\ rq.item[i].completedAt # "null" <=> InHistory(rq, i)
         /\ rq.item[i].invoked = IF InWaitList(rq, i) THEN 0 ELSE 1

\* the promise of an item the queue holds is settled iff the item is in a
\* history list
PromiseState == \A i \in Ids : Held(rq, i) => (Settled(i) <=> InHistory(rq, i))

\* the part of C32 about the queue's collections, the timestamps and the
\* invocations of the work unit
ItemLifecycle ==
  /\ ItemState
  /\ [][ /\ ItemState'
         /\ \A i \in Ids : LifecycleMove(PlacesOf(rq, i), PlacesOf(rq', i)) ]_vars

\* C32 as stated: every item the queue holds is in exactly one of the wait
\* list, the processing set, the completed list and the failed list, and
\* moves only wait -> processing -> (completed | failed); startedAt is null
\* iff it waits and completedAt is set iff it is in a history list; its
\* work unit is invoked once, at dispatch; its promise is settled once: in
\* the block that moves it to a history list, and never again.
C32_ItemLifecycle ==
  /\ ItemLifecycle
  /\ PromiseState
  /\ [][ /\ PromiseState'
         /\ \A i \in Ids : Settled(i) => promise'[i] = promise[i] ]_vars

\* ------------------------------------------------- dispatch and ceiling
\* the items a block moved into the processing set
Entered == rq'.processing \ rq.processing
\* the items in flight before the block that are still in flight after it
Remaining == rq.processing \cap rq'.processing

\* C33: a block dispatches an item only when the items still in flight are
\* fewer than the ceiling in force in that block; the processing set gets
\* from within the ceiling to above it only in a block that lowers the
\* ceiling and dispatches nothing; and while the processing set is not below
\* the ceiling, a block that settles an item without bringing it below
\* dispatches nothing.
C33_DispatchBelowCeiling ==
  [][ /\ Entered # {} =>
           /\ Cardinality(Entered) = 1
           /\ Cardinality(Remaining) < rq'.maxConcurrent
      /\ (InFlight <= rq.maxConcurrent /\
            Cardinality(rq'.processing) > rq'.maxConcurrent) =>
           /\ rq'.maxConcurrent < rq.maxConcurrent
           /\ Entered = {}
      /\ (InFlight > rq.maxConcurrent /\ rq'.maxConcurrent = rq.maxConcurrent /\
            Cardinality(Remaining) >= rq.maxConcurrent) =>
           Entered = {}
    ]_vars

\* C33 witness: the ceiling was lowered to 1 under items 1 and 2 in flight;
\* item 2 has settled and item 3 still waits behind item 1
C33_WaitsBehindLoweredCeiling ==
  /\ rq.maxConcurrent = 1
  /\ rq.processing = {1}
  /\ rq.queue = <<3>>
  /\ InHistory(rq, 2)

\* ------------------------------------------------ recovery checks pending
\* C34: at most one recovery check is pending, and none while the manager
\* is not degraded, however many processRequest calls read utilization above
\* the degradation threshold at the same time and however many times the
\* manager has entered and left degraded mode.
C34_OneRecoveryCheck ==
  /\ recoveryTimers <= 1
  /\ ~rm.isDegraded => recoveryTimers = 0

\* C34 witness: the manager is in its second episode of degraded mode, each
\* call having entered one, and the check of the second episode is pending
C34_SecondEpisodeChecked ==
  /\ \A p \in Calls : call[p].entered
  /\ rm.isDegraded
  /\ recoveryTimers = 1

\* ------------------------------------------------ one reading per check
\* call p is between the two tests of its pressure check
BetweenTests(c, p) == c[p].pc \in {"opt1", "opt1Done"}

\* C35: the reading a pressure check takes when it starts is the one both
\* of its tests use: a check whose reading is above the degradation
\* threshold leaves the manager degraded when it makes its second test,
\* whatever the collaborators report by then, and a check whose reading is
\* not above it leaves the mode as it is; degraded mode ends only in the
\* block of a recovery check.
C35_SingleReading ==
  [][ /\ \A p \in Calls :
           /\ (~BetweenTests(call, p) /\ BetweenTests(call', p)) =>
                /\ call'[p].usage = UsageNow
                /\ call'[p].limit = rm.maxMemoryUsage
           /\ (BetweenTests(call, p) /\ BetweenTests(call', p)) =>
                /\ call'[p].usage = call[p].usage
                /\ call'[p].limit = call[p].limit
           /\ (BetweenTests(call, p) /\ ~BetweenTests(call', p)) =>
                (rm'.isDegraded <=>
                   \/ rm.isDegraded
                   \/ Above(call[p].usage, call[p].limit, gracefulDegradationThreshold))
      /\ (rm.isDegraded /\ ~rm'.isDegraded) => RecoveryCheck
    ]_vars

\* C35 witness: a call has just taken the manager into degraded mode on its
\* reading, after a pass, while the collaborators report a utilization
\* below the optimization threshold; no recovery check is scheduled yet
C35_DegradedOnStaleReading ==
  /\ rm.isDegraded
  /\ rm.lastOptimization
  /\ recoveryTimers = 0
  /\ UtilizationLow
  /\ \E p \in Calls : call[p].entered /\ call[p].pc \in {"opt2", "opt2Done"}

\* --------------------------------------------------- floor of the ceiling
\* maxConcurrentRequests values given to the constructor and to
\* updateResourceLimits, and arguments of setMaxConcurrent: negative, zero
\* and positive
AnyCeilings == {-1, 0, 2}
AnyCeilingLimits ==
  [maxMemoryUsage : {0}, maxProcessingTime : {0}, maxConcurrentRequests : AnyCeilings]

\* new ResourceManager({maxConcurrentRequests: c}), whose queue is
\* new RequestQueue(c)
InitRMAnyCeiling == \E c \in AnyCeilings : Constructed(c, c)

NextRMAnyCeiling ==
  \/ NextRMRecovery
  \/ \E newLimits \in AnyCeilingLimits : UpdateResourceLimits(newLimits)
  \/ \E n \in AnyCeilings : SetMaxConcurrent(n)

\* the manager configured with any ceiling, reconfigured and its queue's
\* ceiling set at any time
SpecRMAnyCeiling == InitRMAnyCeiling /\ [][NextRMAnyCeiling]_vars

\* every block that changes the ceiling of the queue leaves it at 1 or more
CeilingFlooredOnChange ==
  [][ rq'.maxConcurrent # rq.maxConcurrent => rq'.maxConcurrent >= 1 ]_vars

\* C36 as stated: the ceiling of the queue is at least 1 in every reachable
\* state, whatever the constructors, setMaxConcurrent and
\* updateResourceLimits were given.
C36_CeilingAtLeastOne == rq.maxConcurrent >= 1

\* processRequest calls whose handlers resolve or reject, with or without a
\* reason; all work reaches the queue through processRequest and resetMetrics
\* is not called
NextRMSettle ==
  \/ NextRMRecovery
  \/ \E p \in Calls, reason \in Reasons : HandlerRejects(p, reason)
  \/ \E p \in Calls : FailurePropagates(p)

SpecRMSettle == InitRMRecovery /\ [][NextRMSettle]_vars

\* every continuation that is ready runs, every handler settles one way or
\* the other, every collaborator's pass ends and every timer fires
FairSpecRMSettle ==
  /\ SpecRMSettle
  /\ \A p \in Calls :
       /\ WF_vars(ResumePressure(p))
       /\ WF_vars(ScheduleRecovery(p))
       /\ WF_vars(EnqueueRequest(p))
       /\ WF_vars(HandlerResolves(p) \/ \E reason \in Reasons : HandlerRejects(p, reason))
       /\ WF_vars(FailurePropagates(p))
       /\ WF_vars(RecordEnd(p))
  /\ \A m \in {1} : WF_vars(OptimizeMemorySettled(m, "resolved", FALSE))
  /\ WF_vars(RecoveryCheck)

\* a processRequest call that has been made and has not returned or thrown
Outstanding(p) == call[p].pc \notin {"idle", "done"}

\* the handler of the call has resolved or rejected
HandlerSettled(p) == call[p].outcome # "none"

\* the monitor counts at least the items the queue holds, and nothing is
\* counted or held when no call is outstanding
MonitorCoversQueue ==
  /\ pm.requests.inProgress >= Len(rq.queue) + Cardinality(rq.processing)
  /\ (\A p \in Calls : ~Outstanding(p)) =>
       /\ pm.requests.inProgress = 0
       /\ rq.queue = <<>>
       /\ rq.processing = {}

\* one recordRequestStart per call made, and never a second recordRequestEnd
\* for a call
StartedOnceEndedAtMostOnce ==
  /\ pm.requests.total = Cardinality({p \in Calls : call[p].pc # "idle"})
  /\ \A p \in Calls :
       /\ rec[p].ends <= 1
       /\ rec[p].ends = 1 <=> call[p].pc = "done"

\* the safety part of C37: holds whatever the handlers do
MonitorQueueSafety ==
  /\ MonitorCoversQueue /\ StartedOnceEndedAtMostOnce
  /\ [][MonitorCoversQueue' /\ StartedOnceEndedAtMostOnce']_vars

\* C37 as stated: with all work reaching the queue through processRequest
\* and no resetMetrics, at every instant inProgress >= queue.length +
\* processing.size; every processRequest call contributes exactly one
\* recordRequestStart and, once its handler has settled, exactly one
\* recordRequestEnd; and whenever no call is outstanding inProgress = 0 and
\* the queue has no waiting or in-flight item.
C37_MonitorQueueConsistent ==
  /\ MonitorQueueSafety
  /\ \A p \in Calls : HandlerSettled(p) ~> (rec[p].ends = 1)

\* the manager under calls whose handlers settle either way, started and
\* stopped at any time, its monitor ticking while started
NextRMStop ==
  \/ NextRMSettle
  \/ Start
  \/ Stop
  \/ MonitorTick

SpecRMStop == InitRMRecovery /\ [][NextRMStop]_vars

\* as FairSpecRMSettle; start, stop and the tick happen or not
FairSpecRMStop ==
  /\ SpecRMStop
  /\ \A p \in Calls :
       /\ WF_vars(ResumePressure(p))
       /\ WF_vars(ScheduleRecovery(p))
       /\ WF_vars(EnqueueRequest(p))
       /\ WF_vars(HandlerResolves(p) \/ \E reason \in Reasons : HandlerRejects(p, reason))
       /\ WF_vars(FailurePropagates(p))
       /\ WF_vars(RecordEnd(p))
  /\ \A m \in {1} : WF_vars(OptimizeMemorySettled(m, "resolved", FALSE))
  /\ WF_vars(RecoveryCheck)

\* stop() has been called on a started manager, and start() not since
Stopped == pm.startTime = "startMonitoring" /\ ~pm.isMonitoring

\* a step in which stop() stops the monitor
StopStep == pm.isMonitoring /\ ~pm'.isMonitoring

\* the queue holds item i, waiting or in flight
HeldByQueue(i) == InWaitList(rq, i) \/ i \in rq.processing

\* nothing is in flight while items wait: no settlement is left to dispatch
\* them (the state processNext leaves when its catch throws on a rejection
\* without a reason, before its trailing processNext())
Stalled == rq.queue # <<>> /\ rq.processing = {}

\* the item of call p waits or is in flight
CallHeld(p) == HeldByQueue(call[p].item)

\* what the stop() step does and does not do: it leaves isDegraded,
\* isOptimizing, the limits, the queue (ceiling, wait list, processing set),
\* the pass in progress, the recovery timers and every call as they are; no
\* tick runs while stopped; a recovery check that runs while stopped leaves
\* degraded mode and restores the ceiling when utilization is below the
\* optimization threshold
StopLeavesRest ==
  /\ [][ StopStep =>
           /\ intervals' = 0
           /\ pm'.requests = pm.requests
           /\ UNCHANGED <<rm, rq, pass, recoveryTimers, call, promise>> ]_vars
  /\ [][ Stopped => ~MonitorTick ]_vars
  /\ [][ (Stopped /\ RecoveryCheck /\ rm.isDegraded /\ UtilizationLow) =>
           /\ ~rm'.isDegraded
           /\ rq'.maxConcurrent = rm.maxConcurrentRequests ]_vars

\* a manager that stays stopped and degraded with a timer pending while
\* utilization is low leaves degraded mode
RecoveryGoesOnAfterStop ==
  (Stopped /\ rm.isDegraded /\ recoveryTimers > 0)
     ~> (~Stopped \/ ~UtilizationLow \/ ~rm.isDegraded)

\* an item held while the manager is stopped leaves the queue, unless the
\* queue stalls
WorkGoesOnUnlessStalled ==
  \A p \in Calls : (Stopped /\ CallHeld(p)) ~> (~CallHeld(p) \/ Stalled)

\* C38 as stated: stop() only stops the monitor tick: it leaves isDegraded,
\* isOptimizing, the queue ceiling, the wait list and the processing set
\* unchanged; a recovery check scheduled before stop() still fires
\* afterwards and can still change isDegraded and the ceiling; and every
\* item waiting or in flight while the manager is stopped is dispatched and
\* settled, so that it leaves the wait list and the processing set.
C38_WorkGoesOnAfterStop ==
  /\ StopLeavesRest
  /\ RecoveryGoesOnAfterStop
  /\ \A p \in Calls : (Stopped /\ CallHeld(p)) ~> ~CallHeld(p)

\* C38 witness: the manager is stopped while degraded, the recovery timer
\* scheduled before is due with utilization low again, one item is in
\* flight under the halved ceiling and another waits
C38_StoppedWithWorkAndTimer ==
  /\ Stopped
  /\ rm.isDegraded
  /\ UtilizationLow
  /\ ENABLED RecoveryCheck
  /\ rq.processing # {}
  /\ rq.queue # <<>>

\* the catch handler runs at most once in a call and invokes fallbackToAPI
\* at most once: failures is incremented at most once and fallbackToAPI is
\* invoked at most twice in a call, twice only when the chosen method was
\* the API path and the error it ended with does not contain "api_fallback"
FallbackBounded ==
  /\ processed.failuresAdded <= 1
  /\ processed.fallbackCalls <= 2
  /\ processed.fallbackCalls = 2 =>
       /\ processed.method = "api_fallback"
       /\ processed.failuresAdded = 1
       /\ cp.config.fallbackToAPI

\* C39 as stated: in every processContract call fallbackToAPI is invoked at
\* most once and processingStats.failures is incremented at most once; when
\* the API path was the chosen method and it threw, the catch handler does
\* not invoke fallbackToAPI again.
C39_FallbackAtMostOnce ==
  /\ processed.fallbackCalls <= 1
  /\ processed.failuresAdded <= 1
  /\ (processed.method = "api_fallback" /\ processed.methodThrew) =>
        processed.fallbackCalls = 1

=============================================================================
